---- MODULE Spec2Model ----
(***************************************************************************)
(* Verification model of github.com/tx7do/go-scripts.                      *)
(*                                                                         *)
(* Part 1: the two engine pools, EnginePool (engine_pool.go) and           *)
(* AutoGrowEnginePool, as one state machine.  A pool is a buffered Go      *)
(* channel of engines (pool), a mutex-protected closed flag and, for the   *)
(* auto-growing pool, the counters total and max.  Every critical section  *)
(* of p.mu is a single step (none of them blocks inside); every channel    *)
(* operation is a single step; the code between two such points runs on    *)
(* goroutine-local data only.                                              *)
(*                                                                         *)
(* Part 2: one JavaScript engine (javascript/javascript_engine.go) with    *)
(* its execution lock, its interpreter handle, callers of ExecuteString /  *)
(* CallFunction and the watcher goroutine each call spawns.                *)
(***************************************************************************)
EXTENDS Integers, Sequences, FiniteSets, TLC

\* ---------------------------------------------------------------- bounds
NumBorrowers == 2
NumClosers == 1
MaxCap == 2
NumCallers == 2
MaxLoaded == 2
NumTypes == 3
NumNames == 2
NumWorkers == 1
NumRemovers == 1
NumIniters == 2
MaxCloses == 1
MaxOrphans == 1

Borrowers == 1..NumBorrowers
Closers == 1..NumClosers
Callers == 1..NumCallers
\* Every engine ever created gets a fresh identity; 0 is Go's nil Engine.
\* Beyond the capacity, an engine is created only by an Acquire that was in
\* flight when the count was decremented: at most one per borrower.
EngineIds == 1..(MaxCap + NumBorrowers)
Nil == 0

VARIABLES
    \* ---- pool object
    kind,        \* "fixed" (EnginePool) or "auto" (AutoGrowEnginePool)
    size,        \* EnginePool.size
    max,         \* AutoGrowEnginePool.max
    total,       \* AutoGrowEnginePool.total
    pool,        \* buffer of the channel p.pool
    poolClosed,  \* close(p.pool) has run
    closed,      \* p.closed
    \* ---- engines
    nextId,      \* identity of the next engine NewScriptEngine returns
    einit,       \* engine.initialized
    closeCalls,  \* number of e.Close() calls made on each engine
    \* ---- goroutines calling Acquire / Release
    bpc,         \* position of each borrower
    eng,         \* the engine a borrower got from Acquire (Nil if none)
    aret,        \* error result of the borrower's last Acquire
    xret,        \* result of the engine call the borrower made through the
                 \* pool's ExecuteString ("none": none yet)
    \* ---- goroutines calling Close
    cpc,         \* position of each closer
    cret,        \* lastErr of the closer
    \* ---- history of the calls made on the pool
    closeReturned, \* some Close call has returned
    afterClose,    \* the borrower's latest Acquire or Release(e), e # nil,
                   \* began after a Close call had returned
    anyReleased,   \* some Release(e), e # nil, has been called
    xidle,         \* length of the queue when the borrower's latest wrapper
                   \* call began
    \* ---- JavaScript engine
    initialized, \* engine.initialized
    runtime,     \* engine.runtime # nil
    execMu,      \* holder of engine.execMu (0: free)
    interrupt,   \* pending interrupt of the goja runtime (0: none, c: raised by caller c's watcher)
    jpc,         \* position of each caller
    script,      \* "finite" or "forever": whether the script ends on its own
    ctxDone,     \* the call's ctx.Done() is closed
    doneClosed,  \* the call's done channel is closed
    jret,        \* result of the caller's last call
    wpc,         \* position of the watcher goroutine of each call ("none": no watcher)
    wrt,         \* the watcher's local rt # nil
    spin,        \* flips at every turn of a script's endless loop
    mu,          \* holder of the write lock of engine.mu (0: free)
    programs,    \* engine.programs: the sources of the compiled programs, in load order
    prog,        \* the program a LoadString / LoadFile call has compiled ("none": none)
    jop,         \* the operation a load or ExecuteLoaded step belongs to ("none": none)
    progs,       \* ExecuteLoaded's copy of e.programs
    nrun,        \* number of programs the ExecuteLoaded call has run
    results,     \* ExecuteLoaded's results so far
    \* ---- history of the Init / Close calls made on the JavaScript engine
    lastOk,      \* the last call that succeeded: "none", "Init" or "Close"
    reinit,      \* some Init call has succeeded after a Close call had
    \* ---- Lua engine
    lmu,         \* holder of the write lock of the Lua engine's mu (0: free)
    lreaders,    \* goroutines holding the read lock of mu
    linit,       \* engine.initialized (e.vm # nil exactly then)
    lpc,         \* position of each caller of the Lua engine
    lret,        \* result of the caller's last call on the Lua engine
    \* ---- factory registry
    factories,   \* the map factories: the constructor bound to each type (0: none)
    fcall,       \* the last call on the registry and its result
    \* ---- Manager
    engines,     \* Manager.engines: the engine registered under each name (0: none)
    minit,       \* initialized flag of each engine given to the Manager
    mopen,       \* registrations of each engine not yet dropped or closed
    mpc,         \* position of each goroutine calling the Manager
    mlist,       \* its snapshot list
    mi,          \* number of engines of list its loop has visited
    mlast,       \* its lastErr
    mfailed,     \* index in list of the last engine whose Close failed (0: none)
    mret,        \* error result of its last InitAll / CloseAll
    mcall,       \* the last Register / Get call on the Manager and its result
    mused,       \* the engines that have been given to Register
    rpc,         \* position of each goroutine calling Remove
    reng,        \* the engine its Remove took out of the map
    \* ---- NewEnginePool
    npc,         \* position of the constructor
    nsize,       \* its argument size
    created,     \* its slice created
    neng,        \* its local eng
    ni,          \* number of engines of created its cleanup loop has closed
    nret,        \* its result: "pool", or the error returned with a nil pool
    \* ---- one engine, called by one goroutine at a time
    slang,       \* "js" or "lua": which engine it is
    sinit,       \* engine.initialized
    slast,       \* engine.lastError ("nil": none)
    sexec,       \* engine.execMu is held
    sprogs,      \* engine.programs
    scall,       \* the call in progress or the last call: its operation,
                 \* its script, what it returned, and whether it has returned
    \* ---- Manager.SetDefault / GetDefault
    mdefault,    \* Manager.defaultName (0: "")
    mwriter,     \* the goroutine that holds m.mu in SetDefault (0: none)
    mwriting,    \* the name it is writing
    dpc,         \* position of each goroutine calling GetDefault
    dname,       \* the value of m.defaultName it has read
    dret,        \* the engine its last GetDefault returned (0: none)
    \* ---- EnginePool.InitAll
    ipc,         \* position of each goroutine calling InitAll
    iengs,       \* its slice engines
    ii,          \* number of engines of the slice its loop has visited
    iret,        \* error result of its last InitAll ("none": none yet)
    \* ---- Lua engine: goroutines of calls that returned on cancellation
    lwait,       \* number of such goroutines of each caller that wait for mu
    lorphan,     \* the goroutine that holds mu is one of them
    \* ---- globals registered through the pool's wrappers
    eglobal      \* the name is set in the engine's interpreter

histVars == <<closeReturned, afterClose, anyReleased, xidle>>
poolVars == <<kind, size, max, total, pool, poolClosed, closed, nextId, einit,
              closeCalls, bpc, eng, aret, xret, cpc, cret, histVars>>
lifeVars == <<lastOk, reinit>>
runVars == <<jop, progs, nrun, results>>
loadVars == <<programs, prog, runVars>>
jsVars == <<initialized, runtime, execMu, interrupt, jpc, script, ctxDone,
            doneClosed, jret, wpc, wrt, spin, mu, loadVars, lifeVars>>
luaVars == <<lmu, lreaders, linit, lpc, lret>>
facVars == <<factories, fcall>>
remVars == <<rpc, reng>>
mgrVars == <<engines, minit, mopen, mpc, mlist, mi, mlast, mfailed, mret, mcall, mused,
             remVars>>
newVars == <<npc, nsize, created, neng, ni, nret>>
seqVars == <<slang, sinit, slast, sexec, sprogs, scall>>
defVars == <<mdefault, mwriter, mwriting, dpc, dname, dret>>
iaVars == <<ipc, iengs, ii, iret>>
orphanVars == <<lwait, lorphan>>
moreVars == <<newVars, seqVars, defVars, iaVars, orphanVars, eglobal>>
extVars == <<facVars, mgrVars, moreVars>>
vars == <<poolVars, jsVars, luaVars, extVars>>

\* ============================================================== engines
\* engine.Close: fails with NotInitialized on an engine that is not
\* initialized, otherwise clears the flag.
EngineCloseOk(e) == einit[e]
EngineClosed(e) == [einit EXCEPT ![e] = FALSE]

\* ================================================================ pools
IsAuto == kind = "auto"
\* capacity of the channel: make(chan Engine, size) / make(chan Engine, maxSize)
Capacity == IF IsAuto THEN max ELSE size

\* NewEnginePool: size engines, each created and Init'ed, all in the channel.
NewEnginePool(n) ==
    /\ kind = "fixed"
    /\ size = n /\ max = 0 /\ total = 0
    /\ pool = [i \in 1..n |-> i]
    /\ nextId = n + 1
    /\ einit = [e \in EngineIds |-> e <= n]

\* NewAutoGrowEnginePool: initialSize engines created (Init is not called),
\* all in the channel, total = initialSize.
NewAutoGrowEnginePool(initialSize, maxSize) ==
    /\ kind = "auto"
    /\ size = 0 /\ max = maxSize /\ total = initialSize
    /\ pool = [i \in 1..initialSize |-> i]
    /\ nextId = initialSize + 1
    /\ einit = [e \in EngineIds |-> FALSE]

PoolInit ==
    /\ \/ \E n \in 1..MaxCap : NewEnginePool(n)
       \/ \E m \in 1..MaxCap : \E i \in 0..m : NewAutoGrowEnginePool(i, m)
    /\ poolClosed = FALSE
    /\ closed = FALSE
    /\ closeCalls = [e \in EngineIds |-> 0]
    /\ bpc = [b \in Borrowers |-> "idle"]
    /\ eng = [b \in Borrowers |-> Nil]
    /\ aret = [b \in Borrowers |-> "none"]
    /\ xret = [b \in Borrowers |-> "none"]
    /\ closeReturned = FALSE
    /\ afterClose = [b \in Borrowers |-> FALSE]
    /\ anyReleased = FALSE
    /\ xidle = [b \in Borrowers |-> 0]
    /\ cpc = [c \in Closers |-> "idle"]
    /\ cret = [c \in Closers |-> "nil"]

configVars == <<kind, size, max>>
closerVars == <<cpc, cret>>

\* ------------------------------------------------------------- Acquire
\* Acquire without its closed check
AcquireChecksNothing == FALSE

\* p.mu.Lock(); if p.closed { ... return nil, closed error }; p.mu.Unlock()
AcquireSeesClosed == closed

\* a receive that leaves the engine in the buffer
ReceivedKept(q) == q

\* what a receive removes from the channel buffer
Received(q) == Tail(q)

\* Acquire, first critical section.  On an open pool the fixed pool goes on
\* to the blocking receive, the auto-growing pool to its non-blocking select.
AcquireEnter(b) ==
    /\ bpc[b] = "idle"
    /\ IF AcquireSeesClosed
         THEN /\ aret' = [aret EXCEPT ![b] = "closed"]
              /\ bpc' = bpc
         ELSE /\ aret' = [aret EXCEPT ![b] = "none"]
              /\ bpc' = [bpc EXCEPT ![b] = IF IsAuto THEN "try" ELSE "recv"]
    /\ UNCHANGED <<jsVars, luaVars, extVars, xret, configVars, total, pool, poolClosed, closed, nextId, einit,
                   closeCalls, eng, closerVars>>

\* the same, recorded in the history
AcquireBegin(b) ==
    /\ AcquireEnter(b)
    /\ afterClose' = [afterClose EXCEPT ![b] = closeReturned]
    /\ UNCHANGED <<closeReturned, anyReleased, xidle>>

\* AutoGrowEnginePool.Acquire: select { case eng := <-p.pool: return eng, nil; default: }
\* A receive from a closed, drained channel is ready and yields nil.
AcquireTry(b) ==
    /\ bpc[b] = "try"
    /\ IF pool # <<>>
         THEN /\ eng' = [eng EXCEPT ![b] = Head(pool)]
              /\ pool' = Received(pool)
              /\ bpc' = [bpc EXCEPT ![b] = "holding"]
         ELSE IF poolClosed
           THEN /\ eng' = [eng EXCEPT ![b] = Nil]
                /\ pool' = pool
                /\ bpc' = [bpc EXCEPT ![b] = "holding"]
           ELSE /\ eng' = eng
                /\ pool' = pool
                /\ bpc' = [bpc EXCEPT ![b] = "grow"]
    /\ UNCHANGED <<jsVars, luaVars, extVars, xret, configVars, total, poolClosed, closed, nextId, einit,
                   closeCalls, aret, histVars, closerVars>>

\* the bound of the on-demand creation off by one
AtMostMax == total <= max

\* if p.total < p.max
BelowMax == total < max

\* AutoGrowEnginePool.Acquire, second critical section: reserve a slot
\* (p.total++) or fall through to the blocking receive.
AcquireGrow(b) ==
    /\ bpc[b] = "grow"
    /\ IF BelowMax
         THEN /\ total' = total + 1
              /\ bpc' = [bpc EXCEPT ![b] = "create"]
         ELSE /\ total' = total
              /\ bpc' = [bpc EXCEPT ![b] = "recv"]
    /\ UNCHANGED <<jsVars, luaVars, extVars, xret, configVars, pool, poolClosed, closed, nextId, einit,
                   closeCalls, eng, aret, histVars,
                   closerVars>>

\* eng, err := NewScriptEngine(p.typ): the factory returns a fresh engine
\* (not initialized) or fails.
AcquireCreate(b) ==
    /\ bpc[b] = "create"
    /\ \/ /\ nextId \in EngineIds
          /\ eng' = [eng EXCEPT ![b] = nextId]
          /\ nextId' = nextId + 1
          /\ bpc' = [bpc EXCEPT ![b] = "holding"]
       \/ /\ bpc' = [bpc EXCEPT ![b] = "rollback"]
          /\ UNCHANGED <<eng, nextId>>
    /\ UNCHANGED <<jsVars, luaVars, extVars, xret, configVars, total, pool, poolClosed, closed, einit,
                   closeCalls, aret, histVars, closerVars>>

\* a failed creation that keeps its reserved slot
AcquireRollbackKeeps(b) ==
    /\ bpc[b] = "rollback"
    /\ aret' = [aret EXCEPT ![b] = "factory"]
    /\ bpc' = [bpc EXCEPT ![b] = "idle"]
    /\ UNCHANGED <<jsVars, luaVars, extVars, xret, configVars, total, pool, poolClosed, closed, nextId, einit,
                   closeCalls, eng, histVars, closerVars>>

\* factory failed: p.mu.Lock(); p.total--; p.mu.Unlock(); return nil, err
AcquireRollback(b) ==
    /\ bpc[b] = "rollback"
    /\ total' = total - 1
    /\ aret' = [aret EXCEPT ![b] = "factory"]
    /\ bpc' = [bpc EXCEPT ![b] = "idle"]
    /\ UNCHANGED <<jsVars, luaVars, extVars, xret, configVars, pool, poolClosed, closed, nextId, einit,
                   closeCalls, eng, histVars, closerVars>>

\* eng, ok := <-p.pool: blocks while the channel is open and empty; a closed
\* channel still delivers what its buffer holds, then ok = false.
AcquireRecv(b) ==
    /\ bpc[b] = "recv"
    /\ \/ /\ pool # <<>>
          /\ eng' = [eng EXCEPT ![b] = Head(pool)]
          /\ pool' = Received(pool)
          /\ bpc' = [bpc EXCEPT ![b] = "holding"]
          /\ aret' = aret
       \/ /\ pool = <<>>
          /\ poolClosed
          /\ aret' = [aret EXCEPT ![b] = "closed"]
          /\ bpc' = [bpc EXCEPT ![b] = "idle"]
          /\ UNCHANGED <<eng, pool>>
    /\ UNCHANGED <<jsVars, luaVars, extVars, xret, configVars, total, poolClosed, closed, nextId, einit,
                   closeCalls, histVars, closerVars>>

\* The goroutine is parked in the receive.
Blocked(b) == bpc[b] = "recv" /\ pool = <<>> /\ ~poolClosed

\* ------------------------------------------------------------- Release
\* p.mu.Lock(); closed := p.closed; p.mu.Unlock()
ReleaseSeesClosed == closed

\* the borrower holds what Acquire gave it: on its own account, or inside
\* the pool's ExecuteString, whose engine call has returned
Releasing == {"holding", "returned"}

\* Release(e): nil is ignored; otherwise read the closed flag.
ReleaseEnter(b) ==
    /\ bpc[b] \in Releasing
    /\ IF eng[b] = Nil
         THEN bpc' = [bpc EXCEPT ![b] = "idle"]
         ELSE bpc' = [bpc EXCEPT ![b] =
                          IF ReleaseSeesClosed THEN "rel_close" ELSE "rel_send"]
    /\ UNCHANGED <<jsVars, luaVars, extVars, xret, configVars, total, pool, poolClosed, closed, nextId, einit,
                   closeCalls, eng, aret, closerVars>>

\* the same, recorded in the history
ReleaseBegin(b) ==
    /\ ReleaseEnter(b)
    /\ afterClose' = [afterClose EXCEPT ![b] = closeReturned /\ eng[b] # Nil]
    /\ anyReleased' = (anyReleased \/ eng[b] # Nil)
    /\ UNCHANGED <<closeReturned, xidle>>

\* a Release on a closed pool that drops the engine without closing it
ReleaseCloseLeaks(b) ==
    /\ bpc[b] = "rel_close"
    /\ eng' = [eng EXCEPT ![b] = Nil]
    /\ bpc' = [bpc EXCEPT ![b] = "idle"]
    /\ UNCHANGED <<jsVars, luaVars, extVars, xret, configVars, total, pool, poolClosed, closed, nextId, einit,
                   closeCalls, aret, histVars, closerVars>>

\* if closed { _ = e.Close(); return }
ReleaseClose(b) ==
    /\ bpc[b] = "rel_close"
    /\ closeCalls' = [closeCalls EXCEPT ![eng[b]] = @ + 1]
    /\ einit' = EngineClosed(eng[b])
    /\ eng' = [eng EXCEPT ![b] = Nil]
    /\ bpc' = [bpc EXCEPT ![b] = "idle"]
    /\ UNCHANGED <<jsVars, luaVars, extVars, xret, configVars, total, pool, poolClosed, closed, nextId, aret,
                   histVars, closerVars>>

\* select { case p.pool <- e: default: _ = e.Close() ... }
\* A send on a closed channel panics; the deferred recover takes over.
\* With the channel full the engine is closed and, in the auto-growing pool,
\* the count is decremented next.
ReleaseSend(b) ==
    /\ bpc[b] = "rel_send"
    /\ IF poolClosed
         THEN /\ bpc' = [bpc EXCEPT ![b] = "rel_recover"]
              /\ UNCHANGED <<pool, eng, closeCalls, einit>>
         ELSE IF Len(pool) < Capacity
           THEN /\ pool' = Append(pool, eng[b])
                /\ eng' = [eng EXCEPT ![b] = Nil]
                /\ bpc' = [bpc EXCEPT ![b] = "idle"]
                /\ UNCHANGED <<closeCalls, einit>>
           ELSE /\ closeCalls' = [closeCalls EXCEPT ![eng[b]] = @ + 1]
                /\ einit' = EngineClosed(eng[b])
                /\ eng' = [eng EXCEPT ![b] = Nil]
                /\ bpc' = [bpc EXCEPT ![b] = IF IsAuto THEN "full_dec" ELSE "idle"]
                /\ pool' = pool
    /\ UNCHANGED <<jsVars, luaVars, extVars, xret, configVars, total, poolClosed, closed, nextId, aret,
                   histVars, closerVars>>

\* a recover handler that swallows the panic and forgets the engine
ReleaseRecoverLeaks(b) ==
    /\ bpc[b] = "rel_recover"
    /\ eng' = [eng EXCEPT ![b] = Nil]
    /\ bpc' = [bpc EXCEPT ![b] = IF IsAuto THEN "recover_dec" ELSE "idle"]
    /\ UNCHANGED <<jsVars, luaVars, extVars, xret, configVars, total, pool, poolClosed, closed, nextId, einit,
                   closeCalls, aret, histVars, closerVars>>

\* defer func() { if r := recover(); r != nil { _ = e.Close(); ... } }()
ReleaseRecover(b) ==
    /\ bpc[b] = "rel_recover"
    /\ closeCalls' = [closeCalls EXCEPT ![eng[b]] = @ + 1]
    /\ einit' = EngineClosed(eng[b])
    /\ eng' = [eng EXCEPT ![b] = Nil]
    /\ bpc' = [bpc EXCEPT ![b] = IF IsAuto THEN "recover_dec" ELSE "idle"]
    /\ UNCHANGED <<jsVars, luaVars, extVars, xret, configVars, total, pool, poolClosed, closed, nextId, aret,
                   histVars, closerVars>>

\* p.mu.Lock(); if p.total > 0 { p.total-- }; p.mu.Unlock(): after the close
\* of the queue-full branch ("full_dec") and in the recover handler
\* ("recover_dec")
ReleaseDecrement(b) ==
    /\ bpc[b] \in {"full_dec", "recover_dec"}
    /\ total' = IF total > 0 THEN total - 1 ELSE total
    /\ bpc' = [bpc EXCEPT ![b] = "idle"]
    /\ UNCHANGED <<jsVars, luaVars, extVars, xret, configVars, pool, poolClosed, closed, nextId, einit,
                   closeCalls, eng, aret, histVars,
                   closerVars>>

\* --------------------------------------------------------------- Close
\* a Close that sets the flag but leaves the channel open
CloseBeginKeepsChannel(c) ==
    /\ cpc[c] \in {"idle", "done"}
    /\ IF closed
         THEN cpc' = [cpc EXCEPT ![c] = "ret_nil"]
         ELSE cpc' = [cpc EXCEPT ![c] = "drain"]
    /\ closed' = TRUE
    /\ cret' = [cret EXCEPT ![c] = "nil"]
    /\ UNCHANGED <<jsVars, luaVars, extVars, xret, configVars, total, pool, poolClosed, nextId, einit, closeCalls,
                   bpc, eng, aret, histVars>>

\* a Close without the early return of a closed pool
CloseBeginAgain(c) ==
    /\ cpc[c] \in {"idle", "done"}
    /\ closed' = TRUE
    /\ poolClosed' = TRUE
    /\ cpc' = [cpc EXCEPT ![c] = "drain"]
    /\ cret' = [cret EXCEPT ![c] = "nil"]
    /\ UNCHANGED <<jsVars, luaVars, extVars, xret, configVars, total, pool, nextId, einit, closeCalls, bpc, eng,
                   aret, histVars>>

\* Close, critical section: on a closed pool it goes on to return nil;
\* otherwise p.closed = true; close(p.pool).  A goroutine may call Close
\* again after its previous call returned.
CloseBegin(c) ==
    /\ cpc[c] \in {"idle", "done"}
    /\ IF closed
         THEN /\ cpc' = [cpc EXCEPT ![c] = "ret_nil"]
              /\ UNCHANGED <<closed, poolClosed>>
         ELSE /\ closed' = TRUE
              /\ poolClosed' = TRUE
              /\ cpc' = [cpc EXCEPT ![c] = "drain"]
    /\ cret' = [cret EXCEPT ![c] = "nil"]
    /\ UNCHANGED <<jsVars, luaVars, extVars, xret, configVars, total, pool, nextId, einit, closeCalls, bpc, eng,
                   aret, histVars>>

\* if p.closed { p.mu.Unlock(); return nil }
CloseNil(c) ==
    /\ cpc[c] = "ret_nil"
    /\ cpc' = [cpc EXCEPT ![c] = "done"]
    /\ UNCHANGED <<jsVars, luaVars, extVars, xret, configVars, total, pool, poolClosed, closed, nextId, einit,
                   closeCalls, bpc, eng, aret, cret>>

\* the same, recorded in the history
CloseReturnNil(c) ==
    /\ CloseNil(c)
    /\ closeReturned' = TRUE
    /\ UNCHANGED <<afterClose, anyReleased, xidle>>

\* for eng := range p.pool { if err := eng.Close(); err != nil { lastErr = err } }
\* return lastErr
CloseRange(c) ==
    /\ cpc[c] = "drain"
    /\ IF pool # <<>>
         THEN /\ pool' = Received(pool)
              /\ closeCalls' = [closeCalls EXCEPT ![Head(pool)] = @ + 1]
              /\ einit' = EngineClosed(Head(pool))
              /\ cret' = [cret EXCEPT ![c] =
                                IF EngineCloseOk(Head(pool)) THEN @ ELSE "err"]
              /\ cpc' = cpc
         ELSE /\ poolClosed
              /\ cpc' = [cpc EXCEPT ![c] = "done"]
              /\ UNCHANGED <<pool, closeCalls, einit, cret>>
    /\ UNCHANGED <<jsVars, luaVars, extVars, xret, configVars, total, poolClosed, closed, nextId, bpc, eng, aret>>

\* the same, recorded in the history: the call returns when the queue is empty
CloseDrain(c) ==
    /\ CloseRange(c)
    /\ closeReturned' = (closeReturned \/ pool = <<>>)
    /\ UNCHANGED <<afterClose, anyReleased, xidle>>

PoolNext ==
    \/ \E b \in Borrowers :
          \/ AcquireBegin(b)
          \/ AcquireTry(b)
          \/ AcquireGrow(b)
          \/ AcquireCreate(b)
          \/ AcquireRollback(b)
          \/ AcquireRecv(b)
          \/ ReleaseBegin(b)
          \/ ReleaseClose(b)
          \/ ReleaseSend(b)
          \/ ReleaseRecover(b)
          \/ ReleaseDecrement(b)
    \/ \E c \in Closers :
          \/ CloseBegin(c)
          \/ CloseReturnNil(c)
          \/ CloseDrain(c)

\* ===================================================== JavaScript engine
\* No call in flight on the engine, no program loaded.
JSIdle ==
    /\ execMu = 0
    /\ mu = 0
    /\ programs = <<>>
    /\ prog = [c \in Callers |-> "none"]
    /\ jop = [c \in Callers |-> "none"]
    /\ progs = [c \in Callers |-> <<>>]
    /\ nrun = [c \in Callers |-> 0]
    /\ results = [c \in Callers |-> <<>>]
    /\ lastOk = "none"
    /\ reinit = FALSE
    /\ interrupt = 0
    /\ jpc = [c \in Callers |-> "idle"]
    /\ script = [c \in Callers |-> "finite"]
    /\ ctxDone = [c \in Callers |-> FALSE]
    /\ doneClosed = [c \in Callers |-> FALSE]
    /\ jret = [c \in Callers |-> "none"]
    /\ wpc = [c \in Callers |-> "none"]
    /\ wrt = [c \in Callers |-> FALSE]
    /\ spin = FALSE

\* One engine after Init: initialized, with a runtime, no call in flight.
JSInit ==
    /\ initialized = TRUE
    /\ runtime = TRUE
    /\ JSIdle

\* newJavascriptEngine: not initialized, no runtime
JSNew ==
    /\ initialized = FALSE
    /\ runtime = FALSE
    /\ JSIdle

\* IsInitialized: e.mu.RLock(); defer e.mu.RUnlock(); return e.initialized.
\* The read lock is granted when no goroutine holds the write lock.
MayRLock == mu = 0

engineVars == <<initialized, runtime, mu, loadVars, lifeVars>>

\* ExecuteString / CallFunction (the two differ in what they hand to the
\* interpreter, not in their steps), up to the spawn of the watcher goroutine:
\* if !e.IsInitialized() { return NotInitialized }; done := make(chan struct{});
\* defer close(done); go func() { select ... }().
\* A caller starts its next call once the watcher of its previous one is gone.
ExecBegin(c, s) ==
    /\ jpc[c] = "idle"
    /\ wpc[c] = "none"
    /\ MayRLock
    /\ IF initialized
         THEN /\ script' = [script EXCEPT ![c] = s]
              /\ ctxDone' = [ctxDone EXCEPT ![c] = FALSE]
              /\ jpc' = [jpc EXCEPT ![c] = "lock"]
              /\ doneClosed' = [doneClosed EXCEPT ![c] = FALSE]
              /\ wpc' = [wpc EXCEPT ![c] = "select"]
              /\ jret' = [jret EXCEPT ![c] = "none"]
         ELSE /\ jret' = [jret EXCEPT ![c] = "NotInitialized"]
              /\ UNCHANGED <<script, ctxDone, jpc, doneClosed, wpc>>
    /\ UNCHANGED <<poolVars, luaVars, extVars, engineVars, spin, execMu, interrupt, wrt>>

\* withRuntime: e.execMu.Lock(); defer e.execMu.Unlock();
\* if e.runtime == nil { return nil, ErrJavascriptRuntimeNotInitialized }
WithRuntime(c) ==
    /\ jpc[c] = "lock"
    /\ execMu = 0
    /\ IF runtime
         THEN /\ execMu' = c
              /\ jpc' = [jpc EXCEPT ![c] = "running"]
              /\ jret' = jret
         ELSE /\ execMu' = 0
              /\ jpc' = [jpc EXCEPT ![c] = "finish"]
              /\ jret' = [jret EXCEPT ![c] = "RuntimeNotInitialized"]
    /\ UNCHANGED <<poolVars, luaVars, extVars, engineVars, spin, interrupt, script, ctxDone,
                   doneClosed, wpc, wrt>>

\* rt.RunString(src) / fn(goja.Undefined(), vals...), run while execMu is
\* held.  The interpreter aborts with the interrupt's value when an interrupt
\* is pending (also one left pending before the run started) and consumes
\* it; a finite script may end; a script that loops forever takes one more
\* turn of its loop.
RunScript(c) ==
    /\ jpc[c] = "running"
    /\ IF interrupt # 0
         THEN /\ interrupt' = 0
              /\ jret' = [jret EXCEPT ![c] = "Interrupted"]
              /\ jpc' = [jpc EXCEPT ![c] = "unlock"]
              /\ spin' = spin
         ELSE IF script[c] = "finite"
           THEN /\ jret' = [jret EXCEPT ![c] = "ok"]
                /\ jpc' = [jpc EXCEPT ![c] = "unlock"]
                /\ UNCHANGED <<interrupt, spin>>
           ELSE /\ spin' = ~spin
                /\ UNCHANGED <<interrupt, jret, jpc>>
    /\ UNCHANGED <<poolVars, luaVars, extVars, engineVars, execMu, script, ctxDone,
                   doneClosed, wpc, wrt>>

\* the deferred e.execMu.Unlock() of withRuntime
WithRuntimeUnlock(c) ==
    /\ jpc[c] = "unlock"
    /\ execMu' = 0
    /\ jpc' = [jpc EXCEPT ![c] = "finish"]
    /\ UNCHANGED <<poolVars, luaVars, extVars, engineVars, spin, interrupt, script, ctxDone,
                   doneClosed, jret, wpc, wrt>>

\* e.setLastError(err) / e.ClearError(); return; the deferred close(done)
\* runs and the call's arguments go out of scope
ExecReturn(c) ==
    /\ jpc[c] = "finish"
    /\ doneClosed' = [doneClosed EXCEPT ![c] = TRUE]
    /\ jpc' = [jpc EXCEPT ![c] = "idle"]
    /\ script' = [script EXCEPT ![c] = "finite"]
    /\ UNCHANGED <<poolVars, luaVars, extVars, engineVars, spin, execMu, interrupt, ctxDone, jret,
                   wpc, wrt>>

\* the context of a call is cancelled (or its deadline passes), during the
\* call or after it while the watcher has not left its select
Cancel(c) ==
    /\ jpc[c] # "idle" \/ wpc[c] = "select"
    /\ ~ctxDone[c]
    /\ ctxDone' = [ctxDone EXCEPT ![c] = TRUE]
    /\ UNCHANGED <<poolVars, luaVars, extVars, engineVars, spin, execMu, interrupt, jpc, script,
                   doneClosed, jret, wpc, wrt>>

\* watcher: select { case <-ctx.Done(): ... case <-done: }
\* With both channels ready Go picks either case.
WatchSelect(c) ==
    /\ wpc[c] = "select"
    /\ \/ /\ ctxDone[c]
          /\ wpc' = [wpc EXCEPT ![c] = "lock"]
       \/ /\ doneClosed[c]
          /\ wpc' = [wpc EXCEPT ![c] = "none"]
    /\ UNCHANGED <<poolVars, luaVars, extVars, engineVars, spin, execMu, interrupt, jpc, script,
                   ctxDone, doneClosed, jret, wrt>>

\* the lock the watcher needs before it reads e.runtime
WatcherMayLock == execMu = 0

\* watcher: e.execMu.Lock(); rt := e.runtime; e.execMu.Unlock()
WatchLock(c) ==
    /\ wpc[c] = "lock"
    /\ WatcherMayLock
    /\ wrt' = [wrt EXCEPT ![c] = runtime]
    /\ wpc' = [wpc EXCEPT ![c] = "interrupt"]
    /\ UNCHANGED <<poolVars, luaVars, extVars, engineVars, spin, execMu, interrupt, jpc, script,
                   ctxDone, doneClosed, jret>>

\* watcher: if rt != nil { rt.Interrupt(ctx.Err()) }; the goroutine ends
WatchInterrupt(c) ==
    /\ wpc[c] = "interrupt"
    /\ interrupt' = IF wrt[c] THEN c ELSE interrupt
    /\ wpc' = [wpc EXCEPT ![c] = "none"]
    /\ wrt' = [wrt EXCEPT ![c] = FALSE]
    /\ UNCHANGED <<poolVars, luaVars, extVars, engineVars, spin, execMu, jpc, script, ctxDone,
                   doneClosed, jret>>

Scripts == {"finite", "forever"}

\* the steps of a calling goroutine inside its call
CallStep(c) ==
    \/ WithRuntime(c)
    \/ RunScript(c)
    \/ WithRuntimeUnlock(c)
    \/ ExecReturn(c)

\* the steps of the watcher goroutine of a call
WatchStep(c) ==
    \/ WatchSelect(c)
    \/ WatchLock(c)
    \/ WatchInterrupt(c)

JSNext ==
    \/ \E c \in Callers : \E s \in Scripts : ExecBegin(c, s)
    \/ \E c \in Callers : Cancel(c)
    \/ \E c \in Callers : CallStep(c)
    \/ \E c \in Callers : WatchStep(c)

\* ------------------------------------- lifecycle, loading, globals
\* what a call leaves alone when it neither runs a script nor has a watcher
callVars == <<script, ctxDone, doneClosed, wpc, wrt, spin, interrupt>>

\* an Init without its check of the flag
EngineInitAgain(c) ==
    /\ jpc[c] = "idle"
    /\ mu = 0
    /\ mu' = c
    /\ jpc' = [jpc EXCEPT ![c] = "init_exec"]
    /\ jret' = [jret EXCEPT ![c] = "none"]
    /\ UNCHANGED <<poolVars, luaVars, extVars, callVars, initialized, runtime, execMu, loadVars,
                   lifeVars>>

\* Init: newRt := goja.New(); e.mu.Lock(); defer e.mu.Unlock();
\* if e.initialized { setLastError; return AlreadyInitialized }; the call
\* goes on to e.execMu.Lock() with mu held.
EngineInit(c) ==
    /\ jpc[c] = "idle"
    /\ mu = 0
    /\ IF initialized
         THEN /\ jret' = [jret EXCEPT ![c] = "AlreadyInitialized"]
              /\ UNCHANGED <<mu, jpc>>
         ELSE /\ mu' = c
              /\ jpc' = [jpc EXCEPT ![c] = "init_exec"]
              /\ jret' = [jret EXCEPT ![c] = "none"]
    /\ UNCHANGED <<poolVars, luaVars, extVars, callVars, initialized, runtime, execMu, loadVars,
                   lifeVars>>

\* Init: e.execMu.Lock(); e.runtime = newRt; e.initialized = true;
\* e.lastError = nil; return nil (deferred: execMu.Unlock, mu.Unlock)
EngineInitExec(c) ==
    /\ jpc[c] = "init_exec"
    /\ execMu = 0
    /\ runtime' = TRUE
    /\ initialized' = TRUE
    /\ mu' = 0
    /\ jpc' = [jpc EXCEPT ![c] = "idle"]
    /\ jret' = [jret EXCEPT ![c] = "ok"]
    /\ lastOk' = "Init"
    /\ reinit' = (reinit \/ lastOk = "Close")
    /\ UNCHANGED <<poolVars, luaVars, extVars, callVars, execMu, loadVars>>

\* Close: e.mu.Lock(); defer e.mu.Unlock();
\* if !e.initialized { setLastError; return NotInitialized }; the call goes
\* on to e.execMu.Lock() with mu held.
EngineClose(c) ==
    /\ jpc[c] = "idle"
    /\ mu = 0
    /\ IF ~initialized
         THEN /\ jret' = [jret EXCEPT ![c] = "NotInitialized"]
              /\ UNCHANGED <<mu, jpc>>
         ELSE /\ mu' = c
              /\ jpc' = [jpc EXCEPT ![c] = "close_exec"]
              /\ jret' = [jret EXCEPT ![c] = "none"]
    /\ UNCHANGED <<poolVars, luaVars, extVars, callVars, initialized, runtime, execMu, loadVars,
                   lifeVars>>

\* a Close that returns nil and leaves the flag set
EngineCloseKeepsFlag(c) ==
    /\ jpc[c] = "close_exec"
    /\ execMu = 0
    /\ runtime' = FALSE
    /\ programs' = <<>>
    /\ mu' = 0
    /\ jpc' = [jpc EXCEPT ![c] = "idle"]
    /\ jret' = [jret EXCEPT ![c] = "ok"]
    /\ lastOk' = "Close"
    /\ UNCHANGED <<poolVars, luaVars, extVars, callVars, initialized, execMu, prog, runVars, reinit>>

\* Close: e.execMu.Lock(); e.initialized = false; e.runtime = nil;
\* e.programs = nil; e.lastError = nil; return nil
EngineCloseExec(c) ==
    /\ jpc[c] = "close_exec"
    /\ execMu = 0
    /\ initialized' = FALSE
    /\ runtime' = FALSE
    /\ programs' = <<>>
    /\ mu' = 0
    /\ jpc' = [jpc EXCEPT ![c] = "idle"]
    /\ jret' = [jret EXCEPT ![c] = "ok"]
    /\ lastOk' = "Close"
    /\ UNCHANGED <<poolVars, luaVars, extVars, callVars, execMu, prog, runVars, reinit>>

\* a call of IsInitialized is made
IsInitializedCall(c) ==
    /\ jpc[c] = "idle"
    /\ jpc' = [jpc EXCEPT ![c] = "isinit"]
    /\ jret' = [jret EXCEPT ![c] = "none"]
    /\ UNCHANGED <<poolVars, luaVars, extVars, callVars, engineVars, execMu>>

\* IsInitialized: e.mu.RLock(); defer e.mu.RUnlock(); return e.initialized
IsInitialized(c) ==
    /\ jpc[c] = "isinit"
    /\ MayRLock
    /\ jret' = [jret EXCEPT ![c] = IF initialized THEN "true" ELSE "false"]
    /\ jpc' = [jpc EXCEPT ![c] = "idle"]
    /\ UNCHANGED <<poolVars, luaVars, extVars, callVars, engineVars, execMu>>

\* goja.Compile("", source, true): a source with a syntax error does not compile
Compiles(src) == src # "syntax"

\* the calls that have compiled a program and not yet appended it
Loading == {d \in Callers : jpc[d] = "load_lock"}

\* LoadString / LoadFile, up to the compiled program:
\* if !e.IsInitialized() { return NotInitialized };
\* program, err := goja.Compile(...); if err != nil { return err }.
\* op is the operation the load belongs to: LoadString itself, or
\* ExecuteFile, which starts with e.LoadFile(ctx, filePath).
LoadBegin(c, src, op) ==
    /\ jpc[c] = "idle"
    /\ MayRLock
    /\ Len(programs) + Cardinality(Loading) < MaxLoaded
    /\ IF ~initialized
         THEN /\ jret' = [jret EXCEPT ![c] = "NotInitialized"]
              /\ UNCHANGED <<jpc, prog, jop>>
         ELSE IF ~Compiles(src)
           THEN /\ jret' = [jret EXCEPT ![c] = "CompileFailed"]
                /\ UNCHANGED <<jpc, prog, jop>>
           ELSE /\ jret' = [jret EXCEPT ![c] = "none"]
                /\ jpc' = [jpc EXCEPT ![c] = "load_lock"]
                /\ prog' = [prog EXCEPT ![c] = src]
                /\ jop' = [jop EXCEPT ![c] = op]
    /\ UNCHANGED <<poolVars, luaVars, extVars, callVars, initialized, runtime, mu, programs,
                   progs, nrun, results, lifeVars, execMu>>

LoadString(c, src) == LoadBegin(c, src, "LoadString")

\* ExecuteFile: if err := e.LoadFile(ctx, filePath); err != nil { return nil, err }
ExecuteFile(c, src) == LoadBegin(c, src, "ExecuteFile")

\* LoadString / LoadFile: e.mu.Lock(); if !e.initialized { return NotInitialized };
\* e.programs = append(e.programs, program); e.ClearError(); return nil.
\* ExecuteFile goes on to resAny, err := e.ExecuteLoaded(ctx).
LoadAppend(c) ==
    /\ jpc[c] = "load_lock"
    /\ mu = 0
    /\ IF initialized
         THEN /\ programs' = Append(programs, prog[c])
              /\ IF jop[c] = "ExecuteFile"
                   THEN /\ jpc' = [jpc EXCEPT ![c] = "el_check"]
                        /\ UNCHANGED <<jret, jop>>
                   ELSE /\ jpc' = [jpc EXCEPT ![c] = "idle"]
                        /\ jret' = [jret EXCEPT ![c] = "ok"]
                        /\ jop' = [jop EXCEPT ![c] = "none"]
         ELSE /\ programs' = programs
              /\ jret' = [jret EXCEPT ![c] = "NotInitialized"]
              /\ jpc' = [jpc EXCEPT ![c] = "idle"]
              /\ jop' = [jop EXCEPT ![c] = "none"]
    /\ prog' = [prog EXCEPT ![c] = "none"]
    /\ UNCHANGED <<poolVars, luaVars, extVars, callVars, initialized, runtime, mu, progs, nrun,
                   results, lifeVars, execMu>>

\* ----------------------------------------------------- ExecuteLoaded
\* a call of ExecuteLoaded is made
ExecuteLoaded(c) ==
    /\ jpc[c] = "idle"
    /\ jpc' = [jpc EXCEPT ![c] = "el_check"]
    /\ jop' = [jop EXCEPT ![c] = "ExecuteLoaded"]
    /\ jret' = [jret EXCEPT ![c] = "none"]
    /\ UNCHANGED <<poolVars, luaVars, extVars, callVars, initialized, runtime, mu, programs, prog,
                   progs, nrun, results, lifeVars, execMu>>

\* what a returning ExecuteLoaded / ExecuteFile leaves behind: result err,
\* its locals gone
Returned(c, err) ==
    /\ jret' = [jret EXCEPT ![c] = err]
    /\ jpc' = [jpc EXCEPT ![c] = "idle"]
    /\ jop' = [jop EXCEPT ![c] = "none"]
    /\ progs' = [progs EXCEPT ![c] = <<>>]
    /\ nrun' = [nrun EXCEPT ![c] = 0]
    /\ results' = [results EXCEPT ![c] = <<>>]

\* ExecuteLoaded: if !e.IsInitialized() { return nil, NotInitialized }
ElCheck(c) ==
    /\ jpc[c] = "el_check"
    /\ MayRLock
    /\ IF initialized
         THEN /\ jpc' = [jpc EXCEPT ![c] = "el_copy"]
              /\ UNCHANGED <<jret, jop, progs, nrun, results>>
         ELSE Returned(c, "NotInitialized")
    /\ UNCHANGED <<poolVars, luaVars, extVars, callVars, initialized, runtime, mu, programs, prog,
                   lifeVars, execMu>>

\* e.mu.RLock(); progs := copy of e.programs; e.mu.RUnlock();
\* if len(progs) == 0 { return nil, ErrJavascriptNoProgramLoaded }
ElCopy(c) ==
    /\ jpc[c] = "el_copy"
    /\ MayRLock
    /\ IF programs = <<>>
         THEN Returned(c, "NoProgramLoaded")
         ELSE /\ progs' = [progs EXCEPT ![c] = programs]
              /\ jpc' = [jpc EXCEPT ![c] = "el_run"]
              /\ UNCHANGED <<jret, jop, nrun, results>>
    /\ UNCHANGED <<poolVars, luaVars, extVars, callVars, initialized, runtime, mu, programs, prog,
                   lifeVars, execMu>>

\* rt.RunProgram(program): a program that throws yields an error
Throws(p) == p = "throw"
\* val.Export(): the value the program yields
Value(p) == <<"value of", p>>

\* an ExecuteLoaded that goes on to the next program after a failed one
ElRunOn(c) ==
    /\ jpc[c] = "el_run"
    /\ MayRLock
    /\ execMu = 0
    /\ nrun' = [nrun EXCEPT ![c] = @ + 1]
    /\ results' = [results EXCEPT ![c] = Append(@, Value(progs[c][nrun[c] + 1]))]
    /\ jpc' = [jpc EXCEPT ![c] =
                    IF nrun[c] + 1 = Len(progs[c]) THEN "el_ret" ELSE "el_run"]
    /\ UNCHANGED <<jret, jop, progs, interrupt>>
    /\ UNCHANGED <<poolVars, luaVars, extVars, script, ctxDone, doneClosed, wpc, wrt, spin,
                   initialized, runtime, mu, programs, prog, lifeVars, execMu>>

\* for _, p := range progs { res, err := e.RunProgram(ctx, p);
\* if err != nil { return nil, err }; results = append(results, res) }:
\* one turn of the loop.  RunProgram checks IsInitialized, runs the program
\* under execMu (withRuntime) and returns; its watcher ends with it, no
\* context being cancelled.
ElRun(c) ==
    /\ jpc[c] = "el_run"
    /\ MayRLock
    /\ execMu = 0
    /\ IF ~initialized
         THEN Returned(c, "NotInitialized") /\ interrupt' = interrupt
         ELSE IF ~runtime
           THEN Returned(c, "RuntimeNotInitialized") /\ interrupt' = interrupt
           ELSE IF interrupt # 0
             THEN Returned(c, "Interrupted") /\ interrupt' = 0
             ELSE IF Throws(progs[c][nrun[c] + 1])
               THEN Returned(c, "ScriptError") /\ interrupt' = interrupt
               ELSE /\ nrun' = [nrun EXCEPT ![c] = @ + 1]
                    /\ results' = [results EXCEPT ![c] =
                                        Append(@, Value(progs[c][nrun[c] + 1]))]
                    /\ jpc' = [jpc EXCEPT ![c] =
                                    IF nrun[c] + 1 = Len(progs[c])
                                      THEN "el_ret" ELSE "el_run"]
                    /\ UNCHANGED <<jret, jop, progs, interrupt>>
    /\ UNCHANGED <<poolVars, luaVars, extVars, script, ctxDone, doneClosed, wpc, wrt, spin,
                   initialized, runtime, mu, programs, prog, lifeVars, execMu>>

\* e.ClearError(); return results, nil.  ExecuteFile returns the last
\* element of the slice: return arr[len(arr)-1], nil
ElReturn(c) ==
    /\ jpc[c] = "el_ret"
    /\ Returned(c, "ok")
    /\ UNCHANGED <<poolVars, luaVars, extVars, callVars, initialized, runtime, mu, programs, prog,
                   lifeVars, execMu>>

\* the sources handed to LoadString and ExecuteFile: two that yield a value,
\* one that throws when run, one that does not compile
Sources == {"a", "b", "throw", "syntax"}

\* the steps of a goroutine inside LoadString, ExecuteLoaded or ExecuteFile
LoadStep(c) ==
    \/ LoadAppend(c)
    \/ ElCheck(c)
    \/ ElCopy(c)
    \/ ElRun(c)
    \/ ElReturn(c)

\* one initialized engine under concurrent load and execute calls
LoadedNext ==
    \/ \E c \in Callers : \E src \in Sources : LoadString(c, src)
    \/ \E c \in Callers : \E src \in Sources : ExecuteFile(c, src)
    \/ \E c \in Callers : ExecuteLoaded(c)
    \/ \E c \in Callers : LoadStep(c)

\* -------------------------------------------------------------- globals
\* RegisterGlobal / GetGlobal / RegisterFunction / RegisterModule:
\* if !e.IsInitialized() { return NotInitialized }
GlobalCheck(c) ==
    /\ jpc[c] = "idle"
    /\ MayRLock
    /\ IF initialized
         THEN /\ jpc' = [jpc EXCEPT ![c] = "global_lock"]
              /\ jret' = [jret EXCEPT ![c] = "none"]
         ELSE /\ jpc' = jpc
              /\ jret' = [jret EXCEPT ![c] = "NotInitialized"]
    /\ UNCHANGED <<poolVars, luaVars, extVars, callVars, engineVars, execMu>>

\* a call on a global that asks IsInitialized again with execMu held
GlobalLockThenState(c) ==
    /\ jpc[c] = "global_lock"
    /\ execMu = 0
    /\ execMu' = c
    /\ jpc' = [jpc EXCEPT ![c] = "isinit"]
    /\ jret' = jret
    /\ UNCHANGED <<poolVars, luaVars, extVars, callVars, engineVars>>

\* e.execMu.Lock(); defer e.execMu.Unlock();
\* if e.runtime == nil { return ErrJavascriptRuntimeNotInitialized };
\* the call goes on to e.runtime.Set / e.runtime.Get with execMu held
GlobalLock(c) ==
    /\ jpc[c] = "global_lock"
    /\ execMu = 0
    /\ IF runtime
         THEN /\ execMu' = c
              /\ jpc' = [jpc EXCEPT ![c] = "global_access"]
              /\ jret' = jret
         ELSE /\ execMu' = 0
              /\ jpc' = [jpc EXCEPT ![c] = "idle"]
              /\ jret' = [jret EXCEPT ![c] = "RuntimeNotInitialized"]
    /\ UNCHANGED <<poolVars, luaVars, extVars, callVars, engineVars>>

\* e.runtime.Set(name, value) / e.runtime.Get(name); e.ClearError(); return
GlobalAccess(c) ==
    /\ jpc[c] = "global_access"
    /\ execMu' = 0
    /\ jpc' = [jpc EXCEPT ![c] = "idle"]
    /\ jret' = [jret EXCEPT ![c] = "ok"]
    /\ UNCHANGED <<poolVars, luaVars, extVars, callVars, engineVars>>

\* the sources of the lifecycle scenario: no script fails when it runs
QuietSources == {"a", "syntax"}

\* the steps of a goroutine inside Init, Close, IsInitialized, LoadString or
\* a call on a global
StateStep(c) ==
    \/ EngineInitExec(c)
    \/ EngineCloseExec(c)
    \/ IsInitialized(c)
    \/ LoadAppend(c)
    \/ GlobalLock(c)
    \/ GlobalAccess(c)

EngineNext ==
    \/ \E c \in Callers : EngineInit(c)
    \/ \E c \in Callers : EngineClose(c)
    \/ \E c \in Callers : IsInitializedCall(c)
    \/ \E c \in Callers : \E src \in QuietSources : LoadString(c, src)
    \/ \E c \in Callers : GlobalCheck(c)
    \/ \E c \in Callers : StateStep(c)
    \/ \E c \in Callers : ExecBegin(c, "finite")
    \/ \E c \in Callers : CallStep(c)
    \/ \E c \in Callers : WatchSelect(c)

\* =========================================================== Lua engine
\* One Lua engine (lua/lua_engine.go): a single read/write lock mu guards the
\* flag and the interpreter e.vm.  Every operation but GetGlobal and
\* IsInitialized takes the write lock; the Execute* and CallFunction calls do
\* so in a goroutine of their own, after an IsInitialized check.
\* lpc[c] is "idle", "spawned" (CallFunction: the goroutine is started and
\* has not locked yet) or the name of the operation whose lock c holds.
LuaNew ==
    /\ lmu = 0
    /\ lreaders = {}
    /\ linit = FALSE
    /\ lpc = [c \in Callers |-> "idle"]
    /\ lret = [c \in Callers |-> "none"]

\* the operations that hold e.mu.Lock() from their first to their last statement
LuaWriteOps == {"Init", "Close", "RegisterGlobal"}

\* e.mu.Lock(): granted when no goroutine holds the lock in either mode
LuaMayLock == lmu = 0 /\ lreaders = {}
\* e.mu.RLock(): granted when no goroutine holds the write lock
LuaMayRLock == lmu = 0

\* Init / Close / RegisterGlobal (RegisterFunction, RegisterModule,
\* LoadString alike): e.mu.Lock(); defer e.mu.Unlock()
LuaLock(c, op) ==
    /\ lpc[c] = "idle"
    /\ LuaMayLock
    /\ lmu' = c
    /\ lpc' = [lpc EXCEPT ![c] = op]
    /\ lret' = [lret EXCEPT ![c] = "none"]
    /\ UNCHANGED <<poolVars, jsVars, extVars, lreaders, linit>>

\* CallFunction / ExecuteString: if !e.IsInitialized() { return NotInitialized };
\* done := make(chan result, 1); go func() { ... }()
LuaCall(c) ==
    /\ lpc[c] = "idle"
    /\ LuaMayRLock
    /\ IF linit
         THEN /\ lpc' = [lpc EXCEPT ![c] = "spawned"]
              /\ lret' = [lret EXCEPT ![c] = "none"]
         ELSE /\ lpc' = lpc
              /\ lret' = [lret EXCEPT ![c] = "NotInitialized"]
    /\ UNCHANGED <<poolVars, jsVars, extVars, lmu, lreaders, linit>>

\* the goroutine of CallFunction: e.mu.Lock(); defer e.mu.Unlock()
LuaCallLock(c) ==
    /\ lpc[c] = "spawned"
    /\ LuaMayLock
    /\ lmu' = c
    /\ lpc' = [lpc EXCEPT ![c] = "CallFunction"]
    /\ UNCHANGED <<poolVars, jsVars, extVars, lreaders, linit, lret>>

\* the body of the operation under the write lock, its unlock and return:
\* Init: if e.initialized { AlreadyInitialized }; e.vm = newVirtualMachine(); ...
\* Close: if !e.initialized { NotInitialized }; e.vm.Destroy(); e.vm = nil; ...
\* others: if !e.initialized { NotInitialized }; use e.vm.  The caller of
\* CallFunction receives the result from done (its context is not cancelled).
LuaWrite(c) ==
    /\ lpc[c] \in LuaWriteOps \cup {"CallFunction"}
    /\ lmu = c
    /\ IF lpc[c] = "Init"
         THEN /\ linit' = TRUE
              /\ lret' = [lret EXCEPT ![c] = IF linit THEN "AlreadyInitialized" ELSE "ok"]
         ELSE /\ linit' = IF lpc[c] = "Close" THEN FALSE ELSE linit
              /\ lret' = [lret EXCEPT ![c] = IF linit THEN "ok" ELSE "NotInitialized"]
    /\ lmu' = 0
    /\ lpc' = [lpc EXCEPT ![c] = "idle"]
    /\ UNCHANGED <<poolVars, jsVars, extVars, lreaders>>

\* GetGlobal: e.mu.RLock(); defer e.mu.RUnlock()
LuaGetGlobal(c) ==
    /\ lpc[c] = "idle"
    /\ LuaMayRLock
    /\ lreaders' = lreaders \cup {c}
    /\ lpc' = [lpc EXCEPT ![c] = "GetGlobal"]
    /\ lret' = [lret EXCEPT ![c] = "none"]
    /\ UNCHANGED <<poolVars, jsVars, extVars, lmu, linit>>

\* GetGlobal: if !e.initialized { NotInitialized };
\* lv := e.vm.L.GetGlobal(name); result := e.vm.convertFromLValue(lv); return
LuaRead(c) ==
    /\ lpc[c] = "GetGlobal"
    /\ lreaders' = lreaders \ {c}
    /\ lret' = [lret EXCEPT ![c] = IF linit THEN "ok" ELSE "NotInitialized"]
    /\ lpc' = [lpc EXCEPT ![c] = "idle"]
    /\ UNCHANGED <<poolVars, jsVars, extVars, lmu, linit>>

\* the goroutine is between the lock and the unlock of an operation that
\* uses the interpreter e.vm: every operation on an initialized engine, and
\* an Init that creates it
LuaAccessing(c) ==
    /\ lpc[c] \in LuaWriteOps \cup {"CallFunction", "GetGlobal"}
    /\ linit \/ lpc[c] = "Init"

LuaNext ==
    \/ \E c \in Callers : \E op \in LuaWriteOps : LuaLock(c, op)
    \/ \E c \in Callers : LuaCall(c)
    \/ \E c \in Callers : LuaCallLock(c)
    \/ \E c \in Callers : LuaWrite(c)
    \/ \E c \in Callers : LuaGetGlobal(c)
    \/ \E c \in Callers : LuaRead(c)

\* ===================================================== factory registry
\* factory.go: the package-level map factories, guarded by factoryMu.  Each
\* function holds the lock from its first to its last statement, so each
\* call is one step.  fcall records the last call and what it returned.
Types == 1..NumTypes
Ctors == 1..NumTypes
\* no entry for the key in the map
NoFactory == 0

FacNew ==
    /\ factories = [t \in Types |-> NoFactory]
    /\ fcall = [op |-> "none", typ |-> 0, f |-> NoFactory, ok |-> FALSE]

\* _, ok := factories[typ]
Bound(t) == factories[t] # NoFactory

\* a Register that replaces the binding of a bound type
RegisterOverwrites(t, f) ==
    /\ factories' = [factories EXCEPT ![t] = f]
    /\ fcall' = [op |-> "Register", typ |-> t, f |-> f, ok |-> TRUE]
    /\ UNCHANGED <<poolVars, jsVars, luaVars, moreVars, mgrVars>>

\* Register: if _, ok := factories[typ]; ok { return already registered };
\* factories[typ] = f; return nil
Register(t, f) ==
    /\ IF Bound(t)
         THEN /\ factories' = factories
              /\ fcall' = [op |-> "Register", typ |-> t, f |-> f, ok |-> FALSE]
         ELSE /\ factories' = [factories EXCEPT ![t] = f]
              /\ fcall' = [op |-> "Register", typ |-> t, f |-> f, ok |-> TRUE]
    /\ UNCHANGED <<poolVars, jsVars, luaVars, moreVars, mgrVars>>

\* GetFactory: f, ok := factories[typ]; return f, ok
GetFactory(t) ==
    /\ fcall' = [op |-> "GetFactory", typ |-> t, f |-> factories[t], ok |-> Bound(t)]
    /\ UNCHANGED <<poolVars, jsVars, luaVars, moreVars, mgrVars, factories>>

\* Unregister: if _, ok := factories[typ]; ok { delete(factories, typ);
\* return true }; return false
Unregister(t) ==
    /\ IF Bound(t)
         THEN /\ factories' = [factories EXCEPT ![t] = NoFactory]
              /\ fcall' = [op |-> "Unregister", typ |-> t, f |-> NoFactory, ok |-> TRUE]
         ELSE /\ factories' = factories
              /\ fcall' = [op |-> "Unregister", typ |-> t, f |-> NoFactory, ok |-> FALSE]
    /\ UNCHANGED <<poolVars, jsVars, luaVars, moreVars, mgrVars>>

FactoryNext ==
    \/ \E t \in Types : \E f \in Ctors : Register(t, f)
    \/ \E t \in Types : GetFactory(t)
    \/ \E t \in Types : Unregister(t)

\* =============================================================== Manager
\* manager.go: a map from names to engines guarded by m.mu.  Register and
\* Get hold the lock for the whole call (one step each).  InitAll, CloseAll
\* and Remove hold it for their first part only, and call the engines with
\* the lock released: a step for the locked part, then one per engine call.
\* mlist[w] is the list of the call, mi[w] the number of its engines the loop
\* has visited.
\* An engine is its initialized flag: Init fails on an initialized engine,
\* Close on one that is not, each with the engine's own error value.
\* mopen[e] counts the registrations of e that the Manager has neither
\* dropped (Remove(name, false)) nor answered with a Close call yet.
Names == 1..NumNames
\* the empty string
EmptyName == 0
\* as many engines as names
MgrEngines == 1..NumNames
\* the goroutines that call InitAll and CloseAll, and those that call Remove
Workers == 1..NumWorkers
Removers == 1..NumRemovers
\* no entry for the name in the map
NoEngine == 0
NoErr == <<"nil">>
InitErr(e) == <<"already initialized", e>>
CloseErr(e) == <<"not initialized", e>>

\* goroutines that have called nothing yet
MgrIdle ==
    /\ mpc = [w \in Workers |-> "idle"]
    /\ mlist = [w \in Workers |-> <<>>]
    /\ mi = [w \in Workers |-> 0]
    /\ mlast = [w \in Workers |-> NoErr]
    /\ mfailed = [w \in Workers |-> 0]
    /\ mret = [w \in Workers |-> NoErr]
    /\ mcall = [op |-> "none", name |-> EmptyName, eng |-> NoEngine, ok |-> FALSE]
    /\ mused = {}
    /\ rpc = [r \in Removers |-> "idle"]
    /\ reng = [r \in Removers |-> NoEngine]

\* a new Manager; the engines that will be registered are new as well
MgrNew ==
    /\ MgrIdle
    /\ engines = [n \in Names |-> NoEngine]
    /\ minit = [e \in MgrEngines |-> FALSE]
    /\ mopen = [e \in MgrEngines |-> 0]

\* a Manager in which engines in any state have been registered
MgrAny ==
    /\ MgrIdle
    /\ engines \in [Names -> MgrEngines \cup {NoEngine}]
    /\ minit \in [MgrEngines -> BOOLEAN]
    /\ mopen = [e \in MgrEngines |-> Cardinality({n \in Names : engines[n] = e})]

workVars == <<mpc, mlist, mi, mlast, mfailed, mret>>
engVars == <<minit, mopen>>

\* the names bound in the map
Registered == {n \in Names : engines[n] # NoEngine}

RECURSIVE SeqsOf(_)
\* every order in which a range over the map can visit the names of S
SeqsOf(S) ==
    IF S = {} THEN {<<>>}
    ELSE UNION {{<<n>> \o t : t \in SeqsOf(S \ {n})} : n \in S}

\* a list that holds one of the registered engines only
SnapshotsOfOne == {<<engines[n]>> : n \in Registered} \cup {<<>>}

\* list := ...; for _, e := range m.engines { list = append(list, e) }
Snapshots == {[i \in 1..Len(t) |-> engines[t[i]]] : t \in SeqsOf(Registered)}

\* Register fails: if name == "" || eng == nil { return invalid };
\* if _, ok := m.engines[name]; ok { return already registered }
RegisterOk(n, e) == n # EmptyName /\ e # Nil /\ engines[n] = NoEngine

\* a Register that replaces the engine of a registered name
RegisterReplaces(n, e) ==
    /\ n # EmptyName /\ e # Nil
    /\ engines' = [engines EXCEPT ![n] = e]
    /\ mopen' = [mopen EXCEPT ![e] = @ + 1]
    /\ UNCHANGED <<poolVars, jsVars, luaVars, moreVars, facVars, remVars, workVars, minit>>

\* Register: on success m.engines[name] = eng; return nil
MgrRegister(n, e) ==
    /\ IF RegisterOk(n, e)
         THEN /\ engines' = [engines EXCEPT ![n] = e]
              /\ mopen' = [mopen EXCEPT ![e] = @ + 1]
         ELSE UNCHANGED <<engines, mopen>>
    /\ UNCHANGED <<poolVars, jsVars, luaVars, moreVars, facVars, remVars, workVars, minit>>

\* Get: eng, ok := m.engines[name]; return eng, ok
MgrGet(n) ==
    /\ mcall' = IF n \in Registered
                  THEN [op |-> "Get", name |-> n, eng |-> engines[n], ok |-> TRUE]
                  ELSE [op |-> "Get", name |-> n, eng |-> Nil, ok |-> FALSE]
    /\ UNCHANGED <<poolVars, jsVars, luaVars, moreVars, facVars, remVars, workVars, engVars, engines, mused>>

\* Register, with the call and its result on record
RegisterCall(n, e) ==
    /\ MgrRegister(n, e)
    /\ mcall' = [op |-> "Register", name |-> n, eng |-> e, ok |-> RegisterOk(n, e)]
    /\ mused' = mused

\* Register of an engine that has not been given to the Manager before
RegisterFresh(n, e) ==
    /\ e \notin mused
    /\ MgrRegister(n, e)
    /\ mused' = mused \cup {e}
    /\ mcall' = mcall

\* the start of a call that takes a snapshot, the registry left as it is
Snap(w, pc) ==
    /\ mpc[w] = "idle"
    /\ \E l \in Snapshots : mlist' = [mlist EXCEPT ![w] = l]
    /\ mi' = [mi EXCEPT ![w] = 0]
    /\ mlast' = [mlast EXCEPT ![w] = NoErr]
    /\ mfailed' = [mfailed EXCEPT ![w] = 0]
    /\ mret' = [mret EXCEPT ![w] = NoErr]
    /\ mpc' = [mpc EXCEPT ![w] = pc]
    /\ UNCHANGED <<poolVars, jsVars, luaVars, moreVars, facVars, remVars, engVars, mcall, mused>>

\* InitAll, under m.mu.RLock(): the snapshot
InitAllSnap(w) == Snap(w, "initing") /\ engines' = engines

\* a CloseAll that leaves the registry as it is
CloseAllKeepsRegistry(w) == Snap(w, "closing") /\ engines' = engines

\* CloseAll, under m.mu.Lock(): the snapshot; m.engines = make(map[string]Engine)
CloseAllSnap(w) ==
    /\ Snap(w, "closing")
    /\ engines' = [n \in Names |-> NoEngine]

\* the engine the loop over list visits next
Current(w) == mlist[w][mi[w] + 1]

\* the call returns err: the worker is idle again, its list dropped
Return(w, err) ==
    /\ mpc' = [mpc EXCEPT ![w] = "idle"]
    /\ mret' = [mret EXCEPT ![w] = err]
    /\ mlist' = [mlist EXCEPT ![w] = <<>>]
    /\ mi' = [mi EXCEPT ![w] = 0]
    /\ mlast' = [mlast EXCEPT ![w] = NoErr]
    /\ mfailed' = [mfailed EXCEPT ![w] = 0]

\* for _, e := range list { if err := e.Init(ctx); err != nil { return err } }
\* return nil
InitAllStep(w) ==
    /\ mpc[w] = "initing"
    /\ IF mi[w] = Len(mlist[w])
         THEN /\ Return(w, NoErr)
              /\ minit' = minit
         ELSE IF minit[Current(w)]
           THEN /\ Return(w, InitErr(Current(w)))
                /\ minit' = minit
           ELSE /\ minit' = [minit EXCEPT ![Current(w)] = TRUE]
                /\ mi' = [mi EXCEPT ![w] = @ + 1]
                /\ UNCHANGED <<mpc, mlist, mlast, mfailed, mret>>
    /\ UNCHANGED <<poolVars, jsVars, luaVars, moreVars, facVars, remVars, engines, mcall, mused, mopen>>

\* e.Close() on an engine of the Manager
MgrClose(e) ==
    /\ minit' = [minit EXCEPT ![e] = FALSE]
    /\ mopen' = [mopen EXCEPT ![e] = @ - 1]

\* a CloseAll that keeps the first error
CloseAllStepFirstErr(w) ==
    /\ mpc[w] = "closing"
    /\ IF mi[w] = Len(mlist[w])
         THEN /\ Return(w, mlast[w])
              /\ UNCHANGED engVars
         ELSE /\ MgrClose(Current(w))
              /\ mi' = [mi EXCEPT ![w] = @ + 1]
              /\ IF minit[Current(w)]
                   THEN UNCHANGED <<mlast, mfailed>>
                   ELSE /\ mlast' = [mlast EXCEPT ![w] =
                                        IF @ = NoErr THEN CloseErr(Current(w)) ELSE @]
                        /\ mfailed' = [mfailed EXCEPT ![w] = mi[w] + 1]
              /\ UNCHANGED <<mpc, mlist, mret>>
    /\ UNCHANGED <<poolVars, jsVars, luaVars, moreVars, facVars, remVars, engines, mcall, mused>>

\* var lastErr error
\* for _, e := range list { if err := e.Close(); err != nil { lastErr = err } }
\* return lastErr
CloseAllStep(w) ==
    /\ mpc[w] = "closing"
    /\ IF mi[w] = Len(mlist[w])
         THEN /\ Return(w, mlast[w])
              /\ UNCHANGED engVars
         ELSE /\ MgrClose(Current(w))
              /\ mi' = [mi EXCEPT ![w] = @ + 1]
              /\ IF minit[Current(w)]
                   THEN UNCHANGED <<mlast, mfailed>>
                   ELSE /\ mlast' = [mlast EXCEPT ![w] = CloseErr(Current(w))]
                        /\ mfailed' = [mfailed EXCEPT ![w] = mi[w] + 1]
              /\ UNCHANGED <<mpc, mlist, mret>>
    /\ UNCHANGED <<poolVars, jsVars, luaVars, moreVars, facVars, remVars, engines, mcall, mused>>

\* a Remove that leaves the name in the map
RemoveKeepsEntry(r, n, closeIfExists) ==
    /\ rpc[r] = "idle"
    /\ IF n \in Registered /\ closeIfExists
         THEN /\ rpc' = [rpc EXCEPT ![r] = "removing"]
              /\ reng' = [reng EXCEPT ![r] = engines[n]]
         ELSE UNCHANGED <<rpc, reng>>
    /\ UNCHANGED <<poolVars, jsVars, luaVars, moreVars, facVars, workVars, engVars, engines, mcall, mused>>

\* Remove, under m.mu.Lock(): e, ok := m.engines[name];
\* if ok { delete(m.engines, name) }
Remove(r, n, closeIfExists) ==
    /\ rpc[r] = "idle"
    /\ engines' = [engines EXCEPT ![n] = NoEngine]
    /\ IF n \in Registered /\ closeIfExists
         THEN /\ rpc' = [rpc EXCEPT ![r] = "removing"]
              /\ reng' = [reng EXCEPT ![r] = engines[n]]
              /\ mopen' = mopen
         ELSE /\ mopen' = IF n \in Registered
                            THEN [mopen EXCEPT ![engines[n]] = @ - 1] ELSE mopen
              /\ UNCHANGED <<rpc, reng>>
    /\ UNCHANGED <<poolVars, jsVars, luaVars, moreVars, facVars, workVars, minit, mcall, mused>>

\* if ok && closeIfExists { _ = e.Close() }
RemoveClose(r) ==
    /\ rpc[r] = "removing"
    /\ MgrClose(reng[r])
    /\ rpc' = [rpc EXCEPT ![r] = "idle"]
    /\ reng' = [reng EXCEPT ![r] = NoEngine]
    /\ UNCHANGED <<poolVars, jsVars, luaVars, moreVars, facVars, workVars, engines, mcall, mused>>

\* InitAll and CloseAll while engines are registered and removed
ManagerNext ==
    \/ \E n \in Names : \E e \in MgrEngines : RegisterFresh(n, e)
    \/ \E w \in Workers : InitAllSnap(w)
    \/ \E w \in Workers : InitAllStep(w)
    \/ \E w \in Workers : CloseAllSnap(w)
    \/ \E w \in Workers : CloseAllStep(w)
    \/ \E r \in Removers : \E n \in Names : Remove(r, n, FALSE)

\* concurrent CloseAll and Remove calls
CloseAllNext ==
    \/ \E w \in Workers : CloseAllSnap(w)
    \/ \E w \in Workers : CloseAllStep(w)
    \/ \E r \in Removers : \E n \in Names : \E x \in BOOLEAN : Remove(r, n, x)
    \/ \E r \in Removers : RemoveClose(r)

\* the map of the Manager alone: Register, Get and Remove(name, false)
RegistryNext ==
    \/ \E n \in Names \cup {EmptyName} : \E e \in MgrEngines \cup {Nil} : RegisterCall(n, e)
    \/ \E n \in Names : MgrGet(n)
    \/ \E r \in Removers : \E n \in Names : Remove(r, n, FALSE)

\* ================================================= NewEnginePool
\* The constructor of the fixed pool, one step per call it makes.
NewSizes == {0} \cup EngineIds

\* the pool object and its engines before the constructor has run
PoolUnbuilt ==
    /\ kind = "fixed"
    /\ size = 0 /\ max = 0 /\ total = 0
    /\ pool = <<>>
    /\ nextId = 1
    /\ einit = [e \in EngineIds |-> FALSE]
    /\ poolClosed = FALSE
    /\ closed = FALSE
    /\ closeCalls = [e \in EngineIds |-> 0]
    /\ bpc = [b \in Borrowers |-> "idle"]
    /\ eng = [b \in Borrowers |-> Nil]
    /\ aret = [b \in Borrowers |-> "none"]
    /\ xret = [b \in Borrowers |-> "none"]
    /\ closeReturned = FALSE
    /\ afterClose = [b \in Borrowers |-> FALSE]
    /\ anyReleased = FALSE
    /\ xidle = [b \in Borrowers |-> 0]
    /\ cpc = [c \in Closers |-> "idle"]
    /\ cret = [c \in Closers |-> "nil"]

NewIdle ==
    /\ npc = "idle"
    /\ nsize = 0
    /\ created = <<>>
    /\ neng = Nil
    /\ ni = 0
    /\ nret = "none"

\* what the constructor leaves alone
newFrame == <<jsVars, luaVars, facVars, mgrVars, seqVars, defVars, iaVars, orphanVars, eglobal, max, total, poolClosed, closed,
              bpc, eng, aret, xret, histVars, closerVars>>

\* if size < 1 { return nil, errors.New(...) }
\* p := &EnginePool{pool: make(chan Engine, size), size: size}
NewBegin(n) ==
    /\ npc = "idle"
    /\ nsize' = n
    /\ IF n < 1
         THEN /\ npc' = "done"
              /\ nret' = "size"
              /\ size' = size
         ELSE /\ npc' = "create"
              /\ nret' = nret
              /\ size' = n
    /\ UNCHANGED <<newFrame, kind, pool, nextId, einit, closeCalls, created, neng, ni>>

\* eng, err := NewScriptEngine(typ): the factory fails, or returns a new
\* engine (initialized already or not), or an engine it has returned before.
NewCreate ==
    /\ npc = "create"
    /\ \/ /\ npc' = "cleanup"
          /\ nret' = "factory"
          /\ UNCHANGED <<neng, nextId, einit>>
       \/ /\ nextId \in EngineIds
          /\ \E ready \in BOOLEAN : einit' = [einit EXCEPT ![nextId] = ready]
          /\ neng' = nextId
          /\ nextId' = nextId + 1
          /\ npc' = "init"
          /\ nret' = nret
       \/ /\ \E i \in 1..Len(created) : neng' = created[i]
          /\ npc' = "init"
          /\ UNCHANGED <<nret, nextId, einit>>
    /\ UNCHANGED <<newFrame, kind, size, pool, closeCalls, nsize, created, ni>>

\* a constructor that leaves the engine whose Init failed as it is
NewInitLeaks ==
    /\ npc = "init"
    /\ IF einit[neng]
         THEN /\ npc' = "cleanup"
              /\ nret' = "init"
              /\ UNCHANGED <<einit, closeCalls, created>>
         ELSE /\ einit' = [einit EXCEPT ![neng] = TRUE]
              /\ created' = Append(created, neng)
              /\ npc' = IF Len(created) + 1 = nsize THEN "fill" ELSE "create"
              /\ UNCHANGED <<nret, closeCalls>>
    /\ UNCHANGED <<newFrame, kind, size, pool, nextId, nsize, neng, ni>>

\* if initErr := eng.Init(ctx); initErr != nil { _ = eng.Close(); ... }
\* created = append(created, eng)
\* Init fails on an engine that is initialized already.
NewInit ==
    /\ npc = "init"
    /\ IF einit[neng]
         THEN /\ npc' = "cleanup"
              /\ nret' = "init"
              /\ einit' = EngineClosed(neng)
              /\ closeCalls' = [closeCalls EXCEPT ![neng] = @ + 1]
              /\ created' = created
         ELSE /\ einit' = [einit EXCEPT ![neng] = TRUE]
              /\ created' = Append(created, neng)
              /\ npc' = IF Len(created) + 1 = nsize THEN "fill" ELSE "create"
              /\ UNCHANGED <<nret, closeCalls>>
    /\ UNCHANGED <<newFrame, kind, size, pool, nextId, nsize, neng, ni>>

\* a cleanup that stops after the first engine
NewCleanupOne ==
    /\ npc = "cleanup"
    /\ IF ni < Len(created) /\ ni < 1
         THEN /\ closeCalls' = [closeCalls EXCEPT ![created[ni + 1]] = @ + 1]
              /\ einit' = EngineClosed(created[ni + 1])
              /\ ni' = ni + 1
              /\ npc' = npc
         ELSE /\ npc' = "done"
              /\ UNCHANGED <<closeCalls, einit, ni>>
    /\ UNCHANGED <<newFrame, kind, size, pool, nextId, nsize, created, neng, nret>>

\* for _, e := range created { _ = e.Close() }; return nil, fmt.Errorf(...)
NewCleanup ==
    /\ npc = "cleanup"
    /\ IF ni < Len(created)
         THEN /\ closeCalls' = [closeCalls EXCEPT ![created[ni + 1]] = @ + 1]
              /\ einit' = EngineClosed(created[ni + 1])
              /\ ni' = ni + 1
              /\ npc' = npc
         ELSE /\ npc' = "done"
              /\ UNCHANGED <<closeCalls, einit, ni>>
    /\ UNCHANGED <<newFrame, kind, size, pool, nextId, nsize, created, neng, nret>>

\* for _, e := range created { p.pool <- e }; return p, nil
NewFill ==
    /\ npc = "fill"
    /\ pool' = created
    /\ npc' = "done"
    /\ nret' = "pool"
    /\ UNCHANGED <<newFrame, kind, size, nextId, einit, closeCalls, nsize, created, neng, ni>>

NewNext ==
    \/ \E n \in NewSizes : NewBegin(n)
    \/ NewCreate
    \/ NewInit
    \/ NewCleanup
    \/ NewFill

\* ===================================== one engine, one call at a time
\* The operations of an engine as a caller sees them when no two calls
\* overlap: what each returns and what it leaves in the last-error slot.
\* A script is named after what running it does: it yields a value, throws
\* a JavaScript exception, or calls a native function that panics with a Go
\* value, which the interpreter does not turn into an exception.
Langs == {"js", "lua"}
Outcomes == {"value", "throw", "panic"}
Texts == Outcomes \cup {"syntax"}
NoError == "nil"

SeqNew ==
    /\ slang \in Langs
    /\ sinit = FALSE
    /\ slast = NoError
    /\ sexec = FALSE
    /\ sprogs = <<>>
    /\ scall = [op |-> "none", arg |-> "none", err |-> NoError, val |-> "nil",
                at |-> "none"]

\* what the calls on the one engine leave alone
seqFrame == <<poolVars, jsVars, luaVars, facVars, mgrVars, newVars, defVars, iaVars,
              orphanVars, eglobal>>

\* no call is in progress
SeqIdle == scall.at # "running"

\* the call returns (val, err)
Ret(op, arg, val, err) ==
    scall' = [op |-> op, arg |-> arg, err |-> err, val |-> val, at |-> "returned"]

\* the call returns err after setLastError(err)
Fail(op, arg, err) ==
    /\ Ret(op, arg, "nil", err)
    /\ slast' = err

\* the call returns (val, nil) after ClearError()
Succeed(op, arg, val) ==
    /\ Ret(op, arg, val, NoError)
    /\ slast' = NoError

NotInitializedErr == "NotInitialized"
AlreadyInitializedErr == "AlreadyInitialized"

\* Init: fails on an initialized engine; otherwise creates the interpreter
\* and clears the slot.
SeqInit ==
    /\ SeqIdle
    /\ IF sinit
         THEN /\ Fail("Init", "none", AlreadyInitializedErr)
              /\ UNCHANGED <<sinit, sprogs>>
         ELSE /\ Succeed("Init", "none", "nil")
              /\ sinit' = TRUE
              /\ sprogs' = sprogs
    /\ UNCHANGED <<seqFrame, slang, sexec>>

\* Close: fails on an engine that is not initialized; otherwise drops the
\* interpreter.  The JavaScript engine sets lastError = nil, the Lua engine
\* leaves the slot as it is.
SeqClose ==
    /\ SeqIdle
    /\ IF ~sinit
         THEN /\ Fail("Close", "none", NotInitializedErr)
              /\ UNCHANGED <<sinit, sprogs>>
         ELSE /\ Ret("Close", "none", "nil", NoError)
              /\ slast' = IF slang = "js" THEN NoError ELSE slast
              /\ sinit' = FALSE
              /\ sprogs' = <<>>
    /\ UNCHANGED <<seqFrame, slang, sexec>>

\* LoadString: not initialized, or the source does not compile, or the
\* program is kept and the slot cleared.
SeqLoadString(src) ==
    /\ SeqIdle
    /\ Len(sprogs) < MaxLoaded
    /\ IF ~sinit
         THEN /\ Fail("LoadString", src, NotInitializedErr)
              /\ sprogs' = sprogs
         ELSE IF src = "syntax"
           THEN /\ Fail("LoadString", src, "compile")
                /\ sprogs' = sprogs
           ELSE /\ Succeed("LoadString", src, "nil")
                /\ sprogs' = IF slang = "js" THEN Append(sprogs, src) ELSE sprogs
    /\ UNCHANGED <<seqFrame, slang, sinit, sexec>>

\* LoadStrings(nil) / LoadFiles(nil) / ExecuteStrings(nil) / ExecuteFiles(nil)
\* of the JavaScript engine: the loop runs no turn and the call returns nil.
SeqLoadNone ==
    /\ SeqIdle
    /\ slang = "js"
    /\ Ret("LoadStrings", <<>>, "nil", NoError)
    /\ UNCHANGED <<seqFrame, slang, sinit, sexec, sprogs, slast>>

\* the lists of sources given to LoadStrings
Batches == UNION {[1..n -> Texts] : n \in 1..MaxLoaded}

\* the list after one LoadString after the other has appended the sources
\* of srcs to list: those before the first that does not compile
RECURSIVE Loaded(_, _)
Loaded(list, srcs) ==
    IF srcs = <<>> \/ Head(srcs) = "syntax"
      THEN list
      ELSE Loaded(Append(list, Head(srcs)), Tail(srcs))

\* the batch has a source that does not compile
Breaks(srcs) == \E i \in 1..Len(srcs) : srcs[i] = "syntax"

\* a LoadStrings that appends nothing unless every source compiles
SeqLoadStringsAllOrNone(srcs) ==
    /\ SeqIdle
    /\ slang = "js"
    /\ Len(sprogs) + Len(srcs) <= MaxLoaded
    /\ IF ~sinit
         THEN /\ Fail("LoadStrings", srcs, NotInitializedErr)
              /\ sprogs' = sprogs
         ELSE IF Breaks(srcs)
           THEN /\ Fail("LoadStrings", srcs, "compile")
                /\ sprogs' = sprogs
           ELSE /\ Succeed("LoadStrings", srcs, "nil")
                /\ sprogs' = sprogs \o srcs
    /\ UNCHANGED <<seqFrame, slang, sinit, sexec>>

\* LoadStrings / LoadFiles of the JavaScript engine on a list that is not
\* empty: for _, source := range sources { if err := e.LoadString(ctx,
\* source); err != nil { return err } }; return nil.  The programs appended
\* before the failing source stay in the list.
SeqLoadStrings(srcs) ==
    /\ SeqIdle
    /\ slang = "js"
    /\ Len(sprogs) + Len(srcs) <= MaxLoaded
    /\ IF ~sinit
         THEN /\ Fail("LoadStrings", srcs, NotInitializedErr)
              /\ sprogs' = sprogs
         ELSE /\ sprogs' = Loaded(sprogs, srcs)
              /\ IF Breaks(srcs)
                   THEN Fail("LoadStrings", srcs, "compile")
                   ELSE Succeed("LoadStrings", srcs, "nil")
    /\ UNCHANGED <<seqFrame, slang, sinit, sexec>>

\* RegisterGlobal / RegisterFunction
SeqRegisterGlobal ==
    /\ SeqIdle
    /\ IF ~sinit
         THEN Fail("RegisterGlobal", "none", NotInitializedErr)
         ELSE Succeed("RegisterGlobal", "none", "nil")
    /\ UNCHANGED <<seqFrame, slang, sinit, sexec, sprogs>>

\* GetGlobal: the JavaScript engine fails on a name that is not set
SeqGetGlobal(found) ==
    /\ SeqIdle
    /\ IF ~sinit
         THEN Fail("GetGlobal", "none", NotInitializedErr)
         ELSE IF slang = "js" /\ ~found
           THEN Fail("GetGlobal", "none", "not found")
           ELSE Succeed("GetGlobal", "none", "value")
    /\ UNCHANGED <<seqFrame, slang, sinit, sexec, sprogs>>

\* ClearError
SeqClearError ==
    /\ SeqIdle
    /\ slast' = NoError
    /\ scall' = [op |-> "ClearError", arg |-> "none", err |-> NoError,
                 val |-> "nil", at |-> "returned"]
    /\ UNCHANGED <<seqFrame, slang, sinit, sexec, sprogs>>

\* GetLastError
SeqGetLastError ==
    /\ SeqIdle
    /\ scall' = [op |-> "GetLastError", arg |-> "none", err |-> slast,
                 val |-> "nil", at |-> "returned"]
    /\ UNCHANGED <<seqFrame, slang, sinit, sexec, sprogs, slast>>

\* ExecuteString of the Lua engine: the error of the chunk, or nil
SeqLuaExecuteString(scr) ==
    /\ SeqIdle
    /\ slang = "lua"
    /\ scr \in {"value", "throw"}
    /\ IF ~sinit
         THEN Fail("ExecuteString", scr, NotInitializedErr)
         ELSE IF scr = "throw"
           THEN Fail("ExecuteString", scr, "exception")
           ELSE Succeed("ExecuteString", scr, "nil")
    /\ UNCHANGED <<seqFrame, slang, sinit, sexec, sprogs>>

\* the operations of the JavaScript engine that run a script under execMu
RunOps == {"ExecuteString", "CallFunction", "RunProgram"}

\* if !e.IsInitialized() { ... }; withRuntime: e.execMu.Lock(); defer e.execMu.Unlock()
SeqLock(op, scr) ==
    /\ SeqIdle
    /\ slang = "js"
    /\ IF ~sinit
         THEN /\ Fail(op, scr, NotInitializedErr)
              /\ sexec' = sexec
         ELSE /\ scall' = [op |-> op, arg |-> scr, err |-> NoError,
                           val |-> "nil", at |-> "running"]
              /\ sexec' = TRUE
              /\ slast' = slast
    /\ UNCHANGED <<seqFrame, slang, sinit, sprogs>>

\* The closures of ExecuteString and CallFunction have a deferred recover
\* that assigns the local retErr; RunProgram's closure has none.
Recovers(op) == op \in {"ExecuteString", "CallFunction"}

\* fn(e.runtime) and the return of the operation.  The deferred Unlock of
\* withRuntime runs on every exit, a panic included.  A recovered panic
\* makes the closure return the zero values of its unnamed results,
\* (nil, nil): the assignment to retErr is lost, and the operation goes on
\* as after a script that returned nothing.  A panic that nothing recovers
\* leaves the operation through its caller.
SeqRun ==
    /\ scall.at = "running"
    /\ sexec' = FALSE
    /\ CASE scall.arg = "value" -> Succeed(scall.op, scall.arg, "value")
         [] scall.arg = "throw" -> Fail(scall.op, scall.arg, "exception")
         [] scall.arg = "panic" /\ Recovers(scall.op) ->
                Succeed(scall.op, scall.arg, "nil")
         [] scall.arg = "panic" /\ ~Recovers(scall.op) ->
                /\ scall' = [scall EXCEPT !.at = "panicked"]
                /\ slast' = slast
    /\ UNCHANGED <<seqFrame, slang, sinit, sprogs>>

SeqNext ==
    \/ SeqInit
    \/ SeqClose
    \/ \E src \in Texts : SeqLoadString(src)
    \/ SeqLoadNone
    \/ \E srcs \in Batches : SeqLoadStrings(srcs)
    \/ SeqRegisterGlobal
    \/ \E found \in BOOLEAN : SeqGetGlobal(found)
    \/ SeqClearError
    \/ SeqGetLastError
    \/ \E scr \in Outcomes : SeqLuaExecuteString(scr)
    \/ \E op \in RunOps : \E scr \in Outcomes : SeqLock(op, scr)
    \/ SeqRun

\* ================================== Manager.SetDefault / GetDefault
\* SetDefault writes m.defaultName under m.mu.Lock().  GetDefault evaluates
\* m.defaultName as the argument of m.Get before Get takes the read lock:
\* the read is not ordered with the write.  A read that overlaps the write
\* is a data race on a string, whose outcome is not defined: the value read
\* may be the old name, the new one, or neither.
DefNew ==
    /\ mdefault = EmptyName
    /\ mwriter = 0
    /\ mwriting = EmptyName
    /\ dpc = [g \in Workers |-> "idle"]
    /\ dname = [g \in Workers |-> EmptyName]
    /\ dret = [g \in Workers |-> NoEngine]

\* what SetDefault and GetDefault leave alone
defFrame == <<poolVars, jsVars, luaVars, facVars, mgrVars, newVars, seqVars, iaVars,
              orphanVars, eglobal>>

\* m.mu.Lock(); m.defaultName = name: the write begins
SetDefaultLock(r, n) ==
    /\ mwriter = 0
    /\ \A g \in Workers : dpc[g] # "locked"
    /\ mwriter' = r
    /\ mwriting' = n
    /\ UNCHANGED <<defFrame, mdefault, dpc, dname, dret>>

\* the write is done; m.mu.Unlock()
SetDefaultUnlock(r) ==
    /\ mwriter = r
    /\ mdefault' = mwriting
    /\ mwriter' = 0
    /\ mwriting' = EmptyName
    /\ UNCHANGED <<defFrame, dpc, dname, dret>>

\* GetDefault: the argument m.defaultName is read, no lock held
GetDefaultRead(g) ==
    /\ dpc[g] = "idle"
    /\ IF mwriter = 0
         THEN dname' = [dname EXCEPT ![g] = mdefault]
         ELSE \E n \in Names \cup {EmptyName} : dname' = [dname EXCEPT ![g] = n]
    /\ dpc' = [dpc EXCEPT ![g] = "lookup"]
    /\ UNCHANGED <<defFrame, mdefault, mwriter, mwriting, dret>>

\* m.Get(name): m.mu.RLock()
GetDefaultRLock(g) ==
    /\ dpc[g] = "lookup"
    /\ mwriter = 0
    /\ dpc' = [dpc EXCEPT ![g] = "locked"]
    /\ UNCHANGED <<defFrame, mdefault, mwriter, mwriting, dname, dret>>

\* eng, ok := m.engines[name]; m.mu.RUnlock(); return eng, ok
GetDefaultReturn(g) ==
    /\ dpc[g] = "locked"
    /\ dret' = [dret EXCEPT ![g] =
                    IF dname[g] = EmptyName THEN NoEngine ELSE engines[dname[g]]]
    /\ dpc' = [dpc EXCEPT ![g] = "idle"]
    /\ UNCHANGED <<defFrame, mdefault, mwriter, mwriting, dname>>

DefaultNext ==
    \/ \E r \in Removers : \E n \in Names \cup {EmptyName} : SetDefaultLock(r, n)
    \/ \E r \in Removers : SetDefaultUnlock(r)
    \/ \E g \in Workers : GetDefaultRead(g)
    \/ \E g \in Workers : GetDefaultRLock(g)
    \/ \E g \in Workers : GetDefaultReturn(g)

\* the goroutines that call EnginePool.InitAll
Initers == 1..NumIniters

InitAllIdle ==
    /\ ipc = [i \in Initers |-> "idle"]
    /\ iengs = [i \in Initers |-> <<>>]
    /\ ii = [i \in Initers |-> 0]
    /\ iret = [i \in Initers |-> "none"]

\* no call on the Lua engine has returned on cancellation
NoOrphans ==
    /\ lwait = [c \in Callers |-> 0]
    /\ lorphan = FALSE

\* no global has been registered on any engine
NoGlobals == eglobal = [e \in EngineIds |-> FALSE]

\* the constructor, the one engine, the default name and InitAll before
\* their first call
MoreNew ==
    NewIdle /\ SeqNew /\ slang = "js" /\ DefNew /\ InitAllIdle /\ NoOrphans /\ NoGlobals

\* the registry, the Manager and the constructor before their first call
ExtNew == FacNew /\ MgrNew /\ MoreNew

\* A pool nobody uses, for the specifications of the engine alone.
PoolIdle ==
    /\ NewEnginePool(1)
    /\ poolClosed = FALSE
    /\ closed = FALSE
    /\ closeCalls = [e \in EngineIds |-> 0]
    /\ bpc = [b \in Borrowers |-> "idle"]
    /\ eng = [b \in Borrowers |-> Nil]
    /\ aret = [b \in Borrowers |-> "none"]
    /\ xret = [b \in Borrowers |-> "none"]
    /\ closeReturned = FALSE
    /\ afterClose = [b \in Borrowers |-> FALSE]
    /\ anyReleased = FALSE
    /\ xidle = [b \in Borrowers |-> 0]
    /\ cpc = [c \in Closers |-> "idle"]
    /\ cret = [c \in Closers |-> "nil"]

\* ======================================================= specifications
\* The pools under concurrent borrowers and closers.
Init == PoolInit /\ JSInit /\ LuaNew /\ ExtNew

Next == PoolNext

Spec == Init /\ [][Next]_vars

\* The same pools without the record of the history, which no step reads.
AcquireBeginPlain(b) == AcquireEnter(b) /\ UNCHANGED histVars
ReleaseBeginPlain(b) == ReleaseEnter(b) /\ UNCHANGED histVars
CloseReturnNilPlain(c) == CloseNil(c) /\ UNCHANGED histVars
CloseDrainPlain(c) == CloseRange(c) /\ UNCHANGED histVars

PlainNext ==
    \/ \E b \in Borrowers :
          \/ AcquireBeginPlain(b)
          \/ AcquireTry(b)
          \/ AcquireGrow(b)
          \/ AcquireCreate(b)
          \/ AcquireRollback(b)
          \/ AcquireRecv(b)
          \/ ReleaseBeginPlain(b)
          \/ ReleaseClose(b)
          \/ ReleaseSend(b)
          \/ ReleaseRecover(b)
          \/ ReleaseDecrement(b)
    \/ \E c \in Closers :
          \/ CloseBegin(c)
          \/ CloseReturnNilPlain(c)
          \/ CloseDrainPlain(c)

\* The pools, with the Go runtime waking every goroutine whose receive can
\* complete: a receive that stays ready is eventually performed.  Nothing
\* else is assumed: callers decide freely whether and when to call Acquire,
\* Release or Close.
FairSpec ==
    /\ Init
    /\ [][PlainNext]_vars
    /\ \A b \in Borrowers : WF_vars(AcquireRecv(b))

\* One JavaScript engine under concurrent callers.
InitJS == PoolIdle /\ JSInit /\ LuaNew /\ ExtNew

SpecJS == InitJS /\ [][JSNext]_vars

\* The same, with every goroutine that can take a step eventually taking
\* one: the Go scheduler is preemptive, a looping script starves nobody.
SpecJSFair ==
    /\ SpecJS
    /\ \A c \in Callers : WF_vars(CallStep(c))
    /\ \A c \in Callers : WF_vars(WatchStep(c))

\* One initialized JavaScript engine under concurrent LoadString,
\* ExecuteLoaded and ExecuteFile calls.
SpecLoaded == InitJS /\ [][LoadedNext]_vars

\* One JavaScript engine from its construction on, under concurrent calls of
\* its lifecycle, state, load and execute operations.  Every script ends on
\* its own and no context is cancelled.
InitEngine == PoolIdle /\ JSNew /\ LuaNew /\ ExtNew

SpecEngine == InitEngine /\ [][EngineNext]_vars

\* ------------------------------------------- EnginePool.ExecuteString
\* eng, err := p.Acquire(); if err != nil { return nil, err };
\* defer p.Release(eng); return eng.ExecuteString(ctx, source)
\* The borrower goes through Acquire, then the two steps of the engine's
\* ExecuteString below, then Release.  The script is short and its context
\* is never cancelled, so the watcher goroutine of the call does nothing.

\* engine.runtime # nil: Init sets runtime and initialized together, Close
\* clears them together, both under mu and execMu
RuntimeOf(e) == einit[e]

\* engine.ExecuteString: if !e.IsInitialized() { return nil, NotInitialized }
WrapCheck(b) ==
    /\ bpc[b] = "holding"
    /\ IF einit[eng[b]]
         THEN /\ bpc' = [bpc EXCEPT ![b] = "x_run"]
              /\ xret' = [xret EXCEPT ![b] = "none"]
         ELSE /\ bpc' = [bpc EXCEPT ![b] = "returned"]
              /\ xret' = [xret EXCEPT ![b] = "NotInitialized"]
    /\ UNCHANGED <<jsVars, luaVars, extVars, configVars, total, pool, poolClosed, closed, nextId, einit,
                   closeCalls, eng, aret, histVars, closerVars>>

\* withRuntime: e.execMu.Lock(); defer e.execMu.Unlock();
\* if e.runtime == nil { return nil, RuntimeNotInitialized }; return fn(e.runtime)
WrapRun(b) ==
    /\ bpc[b] = "x_run"
    /\ xret' = [xret EXCEPT ![b] =
                    IF RuntimeOf(eng[b]) THEN "ok" ELSE "RuntimeNotInitialized"]
    /\ bpc' = [bpc EXCEPT ![b] = "returned"]
    /\ UNCHANGED <<jsVars, luaVars, extVars, configVars, total, pool, poolClosed, closed, nextId, einit,
                   closeCalls, eng, aret, histVars, closerVars>>

\* a wrapper that returns without its deferred Release
WrapReturns(b) ==
    /\ bpc[b] = "returned"
    /\ bpc' = [bpc EXCEPT ![b] = "idle"]
    /\ eng' = [eng EXCEPT ![b] = Nil]
    /\ UNCHANGED <<jsVars, luaVars, extVars, xret, configVars, total, pool, poolClosed, closed,
                   nextId, einit, closeCalls, aret, histVars, closerVars>>

\* the deferred p.Release(eng)
WrapRelease(b) == bpc[b] = "returned" /\ ReleaseBeginPlain(b)

\* engine.Close called on an engine of the pool by a goroutine that kept a
\* reference to it; on an engine that is not initialized it changes nothing
DirectClose(e) ==
    /\ e < nextId
    /\ EngineCloseOk(e)
    /\ einit' = EngineClosed(e)
    /\ closeCalls' = [closeCalls EXCEPT ![e] = @ + 1]
    /\ UNCHANGED <<jsVars, luaVars, extVars, configVars, total, pool, poolClosed, closed, nextId,
                   bpc, eng, aret, xret, histVars, closerVars>>

WrapNext ==
    \/ \E b \in Borrowers :
          \/ AcquireBeginPlain(b)
          \/ AcquireRecv(b)
          \/ WrapCheck(b)
          \/ WrapRun(b)
          \/ WrapRelease(b)
          \/ ReleaseClose(b)
          \/ ReleaseSend(b)
          \/ ReleaseRecover(b)
    \/ \E c \in Closers :
          \/ CloseBegin(c)
          \/ CloseReturnNilPlain(c)
          \/ CloseDrainPlain(c)
    \/ \E e \in EngineIds : DirectClose(e)

\* A fixed pool whose borrowers all go through the ExecuteString wrapper.
InitWrap == Init /\ kind = "fixed"

SpecWrap == InitWrap /\ [][WrapNext]_vars

\* ------------------------------------- the wrappers, one call at a time
\* Calls of the pool's wrappers that do not overlap: a wrapper call begins
\* when no other call on the pool is in progress, and Close and engine.Close
\* are called between wrapper calls only.
BorrowersQuiet == \A b \in Borrowers : bpc[b] = "idle"
ClosersQuiet == \A c \in Closers : cpc[c] \in {"idle", "done"}

\* eng, err := p.Acquire(): the wrapper begins
WrapBegin(b) ==
    /\ BorrowersQuiet
    /\ ClosersQuiet
    /\ AcquireEnter(b)
    /\ xidle' = [xidle EXCEPT ![b] = Len(pool)]
    /\ UNCHANGED <<closeReturned, afterClose, anyReleased>>

\* Close of the pool and of an engine, between wrapper calls
BetweenCloseBegin(c) == BorrowersQuiet /\ CloseBegin(c)
BetweenCloseNil(c) == BorrowersQuiet /\ CloseReturnNilPlain(c)
BetweenCloseDrain(c) == BorrowersQuiet /\ CloseDrainPlain(c)
BetweenEngineClose(e) == BorrowersQuiet /\ DirectClose(e)

SoloNext ==
    \/ \E b \in Borrowers :
          \/ WrapBegin(b)
          \/ AcquireTry(b)
          \/ AcquireGrow(b)
          \/ AcquireCreate(b)
          \/ AcquireRollback(b)
          \/ AcquireRecv(b)
          \/ WrapCheck(b)
          \/ WrapRun(b)
          \/ WrapRelease(b)
          \/ ReleaseSend(b)
    \/ \E c \in Closers :
          \/ BetweenCloseBegin(c)
          \/ BetweenCloseNil(c)
          \/ BetweenCloseDrain(c)
    \/ \E e \in EngineIds : BetweenEngineClose(e)

\* A new pool of either kind whose wrappers are called one at a time.
SpecSolo == Init /\ [][SoloNext]_vars

\* One Lua engine from its construction on, under concurrent calls.
InitLua == PoolIdle /\ JSNew /\ LuaNew /\ ExtNew

SpecLua == InitLua /\ [][LuaNext]_vars

\* The factory registry under any sequence of calls.
InitFactory == PoolIdle /\ JSNew /\ LuaNew /\ ExtNew

SpecFactory == InitFactory /\ [][FactoryNext]_vars

\* The map of the Manager under any sequence of Register, Get and Remove.
InitRegistry == PoolIdle /\ JSNew /\ LuaNew /\ ExtNew

SpecRegistry == InitRegistry /\ [][RegistryNext]_vars

\* A new Manager under goroutines that call InitAll and CloseAll while
\* engines are registered and removed.
SpecManager == InitRegistry /\ [][ManagerNext]_vars

\* A Manager with any engines registered, under goroutines that call
\* CloseAll and Remove.
InitCloseAll == PoolIdle /\ JSNew /\ LuaNew /\ FacNew /\ MgrAny /\ MoreNew

SpecCloseAll == InitCloseAll /\ [][CloseAllNext]_vars

\* NewEnginePool called once, with any size and any factory.
InitNew == PoolUnbuilt /\ JSNew /\ LuaNew /\ ExtNew

SpecNew == InitNew /\ [][NewNext]_vars

\* One engine of either language from its construction on, its operations
\* called one at a time.
InitSeq ==
    PoolIdle /\ JSNew /\ LuaNew /\ FacNew /\ MgrNew /\ NewIdle /\ SeqNew /\ DefNew
             /\ InitAllIdle /\ NoOrphans /\ NoGlobals

SpecSeq == InitSeq /\ [][SeqNext]_vars

\* A Manager with any engines registered, none of them initialized, under
\* goroutines that call SetDefault and GetDefault.
InitDefault == InitCloseAll /\ minit = [e \in MgrEngines |-> FALSE]

SpecDefault == InitDefault /\ [][DefaultNext]_vars

\* ================================================== EnginePool.InitAll
\* InitAll borrows all size engines of the fixed pool, one Acquire after
\* the other, calls Init on each, and gives them back with Release.  On the
\* first error it closes every engine it holds and returns the error.
\* what InitAll leaves alone
iaFrame == <<jsVars, luaVars, facVars, mgrVars, newVars, seqVars, defVars, orphanVars, eglobal,
             configVars, total,
             poolClosed, closed, nextId, bpc, eng, aret, xret, histVars, closerVars>>

\* for _, e := range engines { _ = e.Close() }: the flag of every engine of
\* the list is cleared, and each has one more Close call
RECURSIVE ClosedAll(_, _)
ClosedAll(flags, list) ==
    IF list = <<>> THEN flags
    ELSE ClosedAll([flags EXCEPT ![Head(list)] = FALSE], Tail(list))

RECURSIVE CloseCounted(_, _)
CloseCounted(calls, list) ==
    IF list = <<>> THEN calls
    ELSE CloseCounted([calls EXCEPT ![Head(list)] = @ + 1], Tail(list))

\* the error path of InitAll: close what it holds, return err
InitAllFail(i, err) ==
    /\ einit' = ClosedAll(einit, iengs[i])
    /\ closeCalls' = CloseCounted(closeCalls, iengs[i])
    /\ iengs' = [iengs EXCEPT ![i] = <<>>]
    /\ ii' = [ii EXCEPT ![i] = 0]
    /\ iret' = [iret EXCEPT ![i] = err]
    /\ ipc' = [ipc EXCEPT ![i] = "idle"]

\* engines := make([]Engine, 0, p.size)
InitAllBegin(i) ==
    /\ ipc[i] = "idle"
    /\ kind = "fixed"
    /\ ipc' = [ipc EXCEPT ![i] = "acquire"]
    /\ iengs' = [iengs EXCEPT ![i] = <<>>]
    /\ ii' = [ii EXCEPT ![i] = 0]
    /\ iret' = [iret EXCEPT ![i] = "none"]
    /\ UNCHANGED <<iaFrame, pool, einit, closeCalls>>

\* for i := 0; i < p.size; i++ { eng, err := p.Acquire(); ... }: one turn.
\* Acquire returns the closed error on a closed pool, otherwise blocks in
\* the receive until the channel has an engine; on its error the engines
\* already held are closed.  The pool's closed flag does not change while
\* InitAll runs here, so the check and the receive are one step.
InitAllAcquire(i) ==
    /\ ipc[i] = "acquire"
    /\ IF AcquireSeesClosed \/ (pool = <<>> /\ poolClosed)
         THEN InitAllFail(i, "closed") /\ pool' = pool
         ELSE /\ pool # <<>>
              /\ iengs' = [iengs EXCEPT ![i] = Append(@, Head(pool))]
              /\ pool' = Received(pool)
              /\ ipc' = [ipc EXCEPT ![i] =
                             IF Len(iengs[i]) + 1 = size THEN "init" ELSE "acquire"]
              /\ UNCHANGED <<ii, iret, einit, closeCalls>>
    /\ UNCHANGED iaFrame

\* for _, eng := range engines { if err := eng.Init(ctx); err != nil {
\*   for _, e := range engines { _ = e.Close() }; return fmt.Errorf(...) } }
\* one turn: engine.Init fails with AlreadyInitialized on an initialized
\* engine and sets the flag otherwise
InitAllInit(i) ==
    /\ ipc[i] = "init"
    /\ IF einit[iengs[i][ii[i] + 1]]
         THEN InitAllFail(i, "init failed")
         ELSE /\ einit' = [einit EXCEPT ![iengs[i][ii[i] + 1]] = TRUE]
              /\ ii' = [ii EXCEPT ![i] = IF @ + 1 = Len(iengs[i]) THEN 0 ELSE @ + 1]
              /\ ipc' = [ipc EXCEPT ![i] =
                             IF ii[i] + 1 = Len(iengs[i]) THEN "release" ELSE "init"]
              /\ UNCHANGED <<closeCalls, iengs, iret>>
    /\ UNCHANGED <<iaFrame, pool>>

\* for _, eng := range engines { p.Release(eng) }; return nil: one turn.
\* Release closes the engine when the pool is closed or the channel is full
\* and sends it to the channel otherwise.
InitAllRelease(i) ==
    /\ ipc[i] = "release"
    /\ IF ReleaseSeesClosed \/ poolClosed \/ Len(pool) >= Capacity
         THEN /\ einit' = EngineClosed(iengs[i][ii[i] + 1])
              /\ closeCalls' = [closeCalls EXCEPT ![iengs[i][ii[i] + 1]] = @ + 1]
              /\ pool' = pool
         ELSE /\ pool' = Append(pool, iengs[i][ii[i] + 1])
              /\ UNCHANGED <<einit, closeCalls>>
    /\ IF ii[i] + 1 = Len(iengs[i])
         THEN /\ ipc' = [ipc EXCEPT ![i] = "idle"]
              /\ iret' = [iret EXCEPT ![i] = "nil"]
              /\ iengs' = [iengs EXCEPT ![i] = <<>>]
              /\ ii' = [ii EXCEPT ![i] = 0]
         ELSE /\ ii' = [ii EXCEPT ![i] = @ + 1]
              /\ UNCHANGED <<ipc, iret, iengs>>
    /\ UNCHANGED iaFrame

\* engine.Close called by a goroutine that kept a reference to an engine of
\* the pool, at most MaxCloses times on each engine
UserClose(e) ==
    /\ closeCalls[e] < MaxCloses
    /\ DirectClose(e)

InitAllNext ==
    \/ \E i \in Initers : InitAllBegin(i)
    \/ \E i \in Initers : InitAllAcquire(i)
    \/ \E i \in Initers : InitAllInit(i)
    \/ \E i \in Initers : InitAllRelease(i)
    \/ \E b \in Borrowers : AcquireBeginPlain(b)
    \/ \E b \in Borrowers : AcquireRecv(b)
    \/ \E b \in Borrowers : bpc[b] = "holding" /\ ReleaseBeginPlain(b)
    \/ \E b \in Borrowers : ReleaseSend(b)
    \/ \E e \in EngineIds : UserClose(e)

\* A new fixed pool under goroutines that call InitAll, borrowers that
\* acquire and release, and goroutines that close an engine directly.
InitInitAll == Init /\ kind = "fixed"

SpecInitAll == InitInitAll /\ [][InitAllNext]_vars

\* Every goroutine goes on when it can: a goroutine parked in the receive
\* is served when the channel gets an engine (the channel queues its
\* receivers), and a borrower that holds an engine releases it.
SpecInitAllFair ==
    /\ SpecInitAll
    /\ \A i \in Initers :
          /\ SF_vars(InitAllAcquire(i))
          /\ WF_vars(InitAllInit(i))
          /\ WF_vars(InitAllRelease(i))
    /\ \A b \in Borrowers :
          /\ SF_vars(AcquireRecv(b))
          /\ WF_vars(bpc[b] = "holding" /\ ReleaseBeginPlain(b))
          /\ WF_vars(ReleaseSend(b))

\* ============================================ Lua engine: cancellation
\* Execute, ExecuteString, ExecuteFile and CallFunction of the Lua engine
\* start a goroutine that takes e.mu and runs the script, and wait in
\* select { case <-ctx.Done(): ... return nil, ctx.Err(); case ... <-done: }.
\* The context is not handed to the interpreter.  When the ctx.Done() case
\* is taken the call returns and its goroutine goes on by itself: it has the
\* lock or still waits for it, runs the script to its end and unlocks.

\* what the goroutines left behind leave alone
orphanFrame == <<poolVars, jsVars, facVars, mgrVars, newVars, seqVars, defVars, iaVars, eglobal,
                 lreaders, linit>>

\* case <-ctx.Done(): e.setLastError(ctx.Err()); return nil, ctx.Err()
LuaCancel(c) ==
    /\ lpc[c] \in {"spawned", "CallFunction"}
    /\ IF lpc[c] = "spawned"
         THEN /\ lwait[c] < MaxOrphans
              /\ lwait' = [lwait EXCEPT ![c] = @ + 1]
              /\ lorphan' = lorphan
         ELSE /\ lorphan' = TRUE
              /\ lwait' = lwait
    /\ lret' = [lret EXCEPT ![c] = "Canceled"]
    /\ lpc' = [lpc EXCEPT ![c] = "idle"]
    /\ UNCHANGED <<orphanFrame, lmu>>

\* the goroutine of a call that has returned: e.mu.Lock(); defer e.mu.Unlock()
LuaOrphanLock(c) ==
    /\ lwait[c] > 0
    /\ LuaMayLock
    /\ lmu' = c
    /\ lorphan' = TRUE
    /\ lwait' = [lwait EXCEPT ![c] = @ - 1]
    /\ UNCHANGED <<orphanFrame, lpc, lret>>

\* the same goroutine: the script ends, its result goes to the buffered
\* channel done, which nobody reads; the deferred e.mu.Unlock()
LuaOrphanEnd(c) ==
    /\ lmu = c
    /\ lorphan
    /\ lmu' = 0
    /\ lorphan' = FALSE
    /\ UNCHANGED <<orphanFrame, lwait, lpc, lret>>

LuaCancelNext ==
    \/ LuaNext
    \/ \E c \in Callers : LuaCancel(c)
    \/ \E c \in Callers : LuaOrphanLock(c)
    \/ \E c \in Callers : LuaOrphanEnd(c)

\* One Lua engine from its construction on, under concurrent callers whose
\* contexts may be cancelled.
SpecLuaCancel == InitLua /\ [][LuaCancelNext]_vars

\* ============================= the pools' RegisterGlobal and GetGlobal
\* eng, err := p.Acquire(); if err != nil { return err }; defer p.Release(eng);
\* return eng.RegisterGlobal(name, value) / eng.GetGlobal(name)
\* The borrower goes through Acquire, the engine call below, then Release.
\* One name is followed.  No engine is closed while these wrappers run, so
\* the engine's check of its flag and its use of the runtime are one step.

\* what the engine call of a wrapper leaves alone
globFrame == <<jsVars, luaVars, facVars, mgrVars, newVars, seqVars, defVars, iaVars, orphanVars,
               configVars, total, pool, poolClosed, closed, nextId, einit, closeCalls, eng,
               aret, histVars, closerVars>>

\* engine.RegisterGlobal: NotInitialized on an engine that is not
\* initialized, otherwise e.runtime.Set(name, value) on that engine
WrapRegisterGlobal(b) ==
    /\ bpc[b] = "holding"
    /\ eng[b] # Nil
    /\ IF einit[eng[b]]
         THEN /\ eglobal' = [eglobal EXCEPT ![eng[b]] = TRUE]
              /\ xret' = [xret EXCEPT ![b] = "ok"]
         ELSE /\ eglobal' = eglobal
              /\ xret' = [xret EXCEPT ![b] = "NotInitialized"]
    /\ bpc' = [bpc EXCEPT ![b] = "returned"]
    /\ UNCHANGED globFrame

\* engine.GetGlobal: NotInitialized on an engine that is not initialized;
\* val := e.runtime.Get(name); if val == nil { "global variable not found" }
WrapGetGlobal(b) ==
    /\ bpc[b] = "holding"
    /\ eng[b] # Nil
    /\ xret' = [xret EXCEPT ![b] =
                    IF ~einit[eng[b]] THEN "NotInitialized"
                    ELSE IF eglobal[eng[b]] THEN "found" ELSE "NotFound"]
    /\ bpc' = [bpc EXCEPT ![b] = "returned"]
    /\ UNCHANGED <<globFrame, eglobal>>

GlobalsNext ==
    \/ \E b \in Borrowers : WrapBegin(b)
    \/ \E b \in Borrowers : AcquireTry(b)
    \/ \E b \in Borrowers : AcquireGrow(b)
    \/ \E b \in Borrowers : AcquireCreate(b)
    \/ \E b \in Borrowers : AcquireRollback(b)
    \/ \E b \in Borrowers : AcquireRecv(b)
    \/ \E b \in Borrowers : WrapRegisterGlobal(b)
    \/ \E b \in Borrowers : WrapGetGlobal(b)
    \/ \E b \in Borrowers : WrapRelease(b)
    \/ \E b \in Borrowers : ReleaseSend(b)

\* A new pool of either kind whose RegisterGlobal and GetGlobal wrappers are
\* called one at a time.
SpecGlobals == Init /\ [][GlobalsNext]_vars

\* ================================================================ claims
Created == 1..(nextId - 1)
Holders(e) == {b \in Borrowers : eng[b] = e}
InPool(e) == {i \in 1..Len(pool) : pool[i] = e}
IdleCount == Len(pool)
BorrowedCount == Cardinality({b \in Borrowers : eng[b] # Nil})
\* Acquire calls that have reserved a slot (p.total++) and have neither
\* returned the engine nor rolled the count back
ReservedCount == Cardinality({b \in Borrowers : bpc[b] \in {"create", "rollback"}})
TotalCreated == IF IsAuto THEN total ELSE size
InRelease(b) ==
    bpc[b] \in {"rel_close", "rel_send", "rel_recover", "full_dec", "recover_dec"}
\* the borrower's current or last call is an Acquire
InAcquire(b) ==
    \/ bpc[b] \in {"try", "grow", "create", "rollback", "recv", "holding"}
    \/ bpc[b] = "idle" /\ aret[b] # "none"
Draining == \E c \in Closers : cpc[c] = "drain"

\* C1: under any interleaving of Acquire, Release and Close, no engine is
\* held by two borrowers at the same time, and an engine a borrower holds is
\* not in the idle queue, where another Acquire could take it.
C1_NoEngineHeldTwice ==
    \A e \in Created :
        /\ Cardinality(Holders(e)) <= 1
        /\ Holders(e) # {} => InPool(e) = {}

C1_Witness ==
    /\ anyReleased
    /\ \E b1, b2 \in Borrowers :
          /\ b1 # b2
          /\ bpc[b1] = "holding" /\ eng[b1] # Nil
          /\ bpc[b2] = "holding" /\ eng[b2] # Nil

\* C2 as stated: in every state of an open pool, idle + borrowed equals the
\* total-created count (total, resp. size), which never exceeds the capacity.
C2_IdlePlusBorrowedIsTotal ==
    ~closed =>
        /\ IdleCount + BorrowedCount = TotalCreated
        /\ TotalCreated <= Capacity

\* C2 amended: in every state of an open pool, idle + borrowed + the slots
\* reserved by Acquire calls that are creating an engine (or rolling a failed
\* creation back) equals the total-created count, which never exceeds the
\* capacity.
C2_IdleBorrowedReservedIsTotal ==
    ~closed =>
        /\ IdleCount + BorrowedCount + ReservedCount = TotalCreated
        /\ TotalCreated <= Capacity

C2_Witness ==
    /\ ~closed
    /\ IsAuto
    /\ anyReleased
    /\ ReservedCount > 0
    /\ BorrowedCount > 0
    /\ total = max

\* C4: whatever the interleaving of Release(e) with Close, e is closed at
\* most once and queued at most once at any time, no Release ends in an
\* escaped panic, and once Close has drained the queue every engine that no
\* borrower holds has been closed exactly once and is not in the queue.
C4_ReleaseVersusClose ==
    /\ \A e \in Created : closeCalls[e] <= 1 /\ Cardinality(InPool(e)) <= 1
    /\ \A b \in Borrowers : bpc[b] # "panicked"
    /\ (closed /\ ~Draining) =>
          \A e \in Created :
              Holders(e) = {} => (closeCalls[e] = 1 /\ InPool(e) = {})

\* Close has drained the queue, closing an engine, and a Release whose send
\* met the closed channel has closed its engine in the recover handler.
C4_Witness ==
    /\ closed /\ ~Draining
    /\ \E b \in Borrowers : bpc[b] = "recover_dec"
    /\ Cardinality({e \in Created : closeCalls[e] = 1}) >= 2

\* C5: an Acquire that begins after a Close call has returned returns no
\* engine, and when it has returned its error is the pool-closed error.
C5_AcquireAfterCloseFails ==
    \A b \in Borrowers :
        (afterClose[b] /\ InAcquire(b)) =>
            /\ bpc[b] # "holding"
            /\ eng[b] = Nil
            /\ bpc[b] = "idle" => aret[b] = "closed"

C5_Witness ==
    \E b \in Borrowers :
        /\ afterClose[b] /\ InAcquire(b)
        /\ bpc[b] = "idle" /\ aret[b] = "closed"
        /\ \E b2 \in Borrowers : bpc[b2] = "holding" /\ eng[b2] # Nil

\* C6: every step of a Release(e) that began after a Close call has
\* returned is the one step that calls e.Close(), on an engine nobody closed
\* before, and returns: it takes no panic path and leaves the queue alone.
C6_ReleaseAfterCloseCloses ==
    [][\A b \in Borrowers :
          (afterClose[b] /\ InRelease(b) /\ bpc'[b] # bpc[b]) =>
              /\ bpc[b] = "rel_close"
              /\ bpc'[b] = "idle"
              /\ closeCalls[eng[b]] = 0
              /\ closeCalls' = [closeCalls EXCEPT ![eng[b]] = 1]
              /\ pool' = pool
              /\ InPool(eng[b]) = {}]_vars

\* A borrower is back from a call that began after a Close returned and
\* that was no failed Acquire: a Release(e), e # nil.
C6_Witness ==
    \E b \in Borrowers :
        /\ afterClose[b]
        /\ bpc[b] = "idle"
        /\ aret[b] = "none"

\* C7 as stated: once the pool is marked closed no Acquire returns an
\* engine any more, the calls in flight included.
C7_NoEngineOnceClosed ==
    [][closed =>
          \A b \in Borrowers : bpc'[b] = "holding" => bpc[b] = "holding"]_vars

\* C8: no Acquire remains blocked after the pool has been closed, and an
\* Acquire waiting in the receive while the queue holds an engine returns,
\* unless another Acquire got the engine first.
C8_BlockedAcquireReturns ==
    /\ closed ~> (\A b \in Borrowers : bpc[b] # "recv")
    /\ \A b \in Borrowers :
          (bpc[b] = "recv" /\ pool # <<>>) ~> (bpc[b] # "recv" \/ pool = <<>>)

C8_Witness ==
    /\ closed
    /\ pool = <<>>
    /\ \E b \in Borrowers : bpc[b] = "recv"

\* C9: on an auto-growing pool on which no Release has happened, at most max
\* engines have been created and at most max Acquire calls have returned an
\* engine; an Acquire beyond that is not creating one.
C9_AtMostMaxWithoutRelease ==
    (IsAuto /\ ~anyReleased) =>
        /\ Cardinality(Created) <= max
        /\ BorrowedCount <= max
        /\ BorrowedCount + ReservedCount <= max

C9_Witness ==
    /\ IsAuto /\ ~anyReleased /\ ~closed
    /\ BorrowedCount = max
    /\ \E b \in Borrowers : Blocked(b)

\* C10: the closed flag never returns to false, and a Close call on a pool
\* that is already closed returns nil, closing no engine and leaving the
\* queue as it is.
C10_ClosedIsTerminal ==
    [][/\ closed => closed'
       /\ \A c \in Closers :
             (closed /\ cpc[c] \in {"idle", "done"} /\ cpc'[c] # cpc[c]) =>
                 /\ cpc'[c] = "ret_nil" /\ cret'[c] = "nil"
                 /\ closeCalls' = closeCalls /\ pool' = pool /\ einit' = einit
       /\ \A c \in Closers :
             (cpc[c] = "ret_nil" /\ cpc'[c] # cpc[c]) =>
                 /\ cpc'[c] = "done" /\ cret'[c] = "nil"
                 /\ closeCalls' = closeCalls /\ pool' = pool /\ einit' = einit]_vars

C10_Witness ==
    /\ closed
    /\ \E c \in Closers : cpc[c] = "ret_nil"
    /\ \E b \in Borrowers : bpc[b] = "holding" /\ eng[b] # Nil

\* C3: when the cancellation signal of an in-flight ExecuteString or
\* CallFunction fires while the script is running on the engine, the call
\* eventually returns, also when the script would never end on its own.
C3_CancelledCallReturns ==
    \A c \in Callers : (ctxDone[c] /\ jpc[c] = "running") ~> (jpc[c] = "idle")

\* a step of a goroutine inside Close
CloserStep ==
    \/ cpc' # cpc
    \/ Draining /\ pool' # pool /\ bpc' = bpc

\* C11 as stated: when the Close call that closed the pool returns, the idle
\* queue is empty; every engine that was idle in the queue of the closed
\* pool leaves the queue by Close's e.Close() only; and no step of Close
\* closes or uninitializes an engine a borrower holds.
C11_CloseClosesIdleOnly ==
    [][/\ \A c \in Closers : (cpc[c] = "drain" /\ cpc'[c] = "done") => pool = <<>>
       /\ (poolClosed /\ pool # <<>> /\ pool' # pool) =>
             closeCalls'[Head(pool)] = closeCalls[Head(pool)] + 1
       /\ CloserStep =>
             \A e \in Created :
                 Holders(e) # {} =>
                     (closeCalls'[e] = closeCalls[e] /\ einit'[e] = einit[e])]_vars

\* C13 as stated: once an ExecuteString / CallFunction / RunProgram call has
\* returned, the watcher goroutine it spawned takes no step but its exit:
\* it does not go on to lock execMu and it raises no interrupt.
C13_NoWatcherOutlivesCall ==
    [][\A c \in Callers :
          (jpc[c] = "idle" /\ wpc[c] # "none" /\ wpc'[c] # wpc[c]) =>
              /\ wpc[c] = "select"
              /\ wpc'[c] = "none"
              /\ interrupt' = interrupt]_vars

\* the positions at which a goroutine holds execMu
HoldsExecMu == {"running", "unlock", "global_access"}
\* the positions at which a goroutine holds mu and waits for execMu
HoldsMu == {"init_exec", "close_exec"}

\* C14: a goroutine holding execMu is at a position that does not request
\* mu; mu is held exactly by an Init or Close that goes on to take execMu
\* (mu first, both released together at the return); and whenever some
\* goroutine is inside a call on the engine, some goroutine inside a call
\* can take its next step: no set of concurrent calls is deadlocked.
C14_LockOrderNoDeadlock ==
    /\ \A c \in Callers : execMu = c => jpc[c] \in HoldsExecMu
    /\ \A c \in Callers : mu = c <=> jpc[c] \in HoldsMu
    /\ (\E c \in Callers : jpc[c] # "idle") =>
          \E c \in Callers : ENABLED (StateStep(c) \/ CallStep(c))

\* Close holds mu and waits for execMu, which a running script holds, while
\* another call waits for mu.
C14_Witness ==
    \E c1, c2 \in Callers :
        /\ jpc[c1] = "close_exec" /\ mu = c1
        /\ jpc[c2] = "running" /\ execMu = c2
        /\ lastOk = "Init"

\* C15 as stated: IsInitialized never blocks: in every state in which a call
\* of IsInitialized is pending, the call can take its read lock and return
\* the flag.
C15_IsInitializedNeverBlocks ==
    \A c \in Callers : jpc[c] = "isinit" => ENABLED IsInitialized(c)

\* C17: a call that returns AlreadyInitialized (Init) or NotInitialized
\* (Close, and any other call) found the flag set, resp. cleared, and leaves
\* the flag, the interpreter handle and the loaded programs as they are; an
\* Init goes past its check only on an engine that is not initialized and
\* then returns nil with the flag set; a Close goes past its check only on
\* an initialized engine and then returns nil with the flag cleared.
C17_InitCloseErrorsChangeNothing ==
    [][\A c \in Callers :
          /\ (jret'[c] = "AlreadyInitialized" /\ jret[c] # jret'[c]) =>
                /\ initialized
                /\ UNCHANGED <<initialized, runtime, programs>>
          /\ (jret'[c] = "NotInitialized" /\ jret[c] # jret'[c]) =>
                /\ ~initialized
                /\ UNCHANGED <<initialized, runtime, programs>>
          /\ (jpc[c] = "idle" /\ jpc'[c] = "init_exec") =>
                /\ ~initialized
                /\ UNCHANGED <<initialized, runtime, programs>>
          /\ (jpc[c] = "idle" /\ jpc'[c] = "close_exec") =>
                /\ initialized
                /\ UNCHANGED <<initialized, runtime, programs>>
          /\ (jpc[c] = "init_exec" /\ jpc'[c] # jpc[c]) =>
                /\ ~initialized /\ initialized' /\ runtime'
                /\ jpc'[c] = "idle" /\ jret'[c] = "ok"
          /\ (jpc[c] = "close_exec" /\ jpc'[c] # jpc[c]) =>
                /\ initialized /\ ~initialized' /\ ~runtime'
                /\ jpc'[c] = "idle" /\ jret'[c] = "ok"]_vars

\* An Init has failed on the initialized engine that holds a loaded program,
\* after another goroutine's call had failed on the closed engine.
C17_Witness ==
    \E c1, c2 \in Callers :
        /\ jret[c1] = "AlreadyInitialized"
        /\ jret[c2] = "NotInitialized"
        /\ jpc[c1] = "idle" /\ jpc[c2] = "idle"
        /\ initialized /\ programs # <<>>
        /\ reinit

\* no call is in flight on the engine
Quiescent == \A c \in Callers : jpc[c] = "idle"

\* C18: under concurrent Init and Close calls, an Init either goes on to
\* succeed or returns AlreadyInitialized, a Close either goes on to succeed
\* or returns NotInitialized; the calls that return nil alternate, Init
\* first; and when all calls have returned both locks are free, so that a
\* further Init, then Close, can run (an engine closed before can be
\* initialized again).
C18_InitCloseAlternate ==
    [][/\ \A c \in Callers :
             /\ EngineInit(c) =>
                   \/ jpc'[c] = "init_exec"
                   \/ jpc'[c] = "idle" /\ jret'[c] = "AlreadyInitialized"
             /\ EngineClose(c) =>
                   \/ jpc'[c] = "close_exec"
                   \/ jpc'[c] = "idle" /\ jret'[c] = "NotInitialized"
             /\ (jpc[c] = "init_exec" /\ jpc'[c] # jpc[c]) =>
                   /\ jret'[c] = "ok"
                   /\ lastOk # "Init" /\ lastOk' = "Init"
             /\ (jpc[c] = "close_exec" /\ jpc'[c] # jpc[c]) =>
                   /\ jret'[c] = "ok"
                   /\ lastOk = "Init" /\ lastOk' = "Close"
       /\ lastOk' # lastOk =>
             \E c \in Callers : jpc[c] \in HoldsMu /\ jpc'[c] = "idle"
       /\ Quiescent =>
             /\ mu = 0 /\ execMu = 0
             /\ initialized <=> lastOk = "Init"
             /\ \A c \in Callers : ENABLED EngineInit(c) /\ ENABLED EngineClose(c)]_vars

\* After Init, Close, Init, Close have succeeded in turn, with failed calls
\* of both kinds in between, no call is in flight.
C18_Witness ==
    /\ Quiescent
    /\ reinit /\ lastOk = "Close"
    /\ \E c \in Callers : jret[c] = "ok"
    /\ \E c \in Callers : jret[c] = "NotInitialized"

\* a step of caller c inside its ExecuteFile call
ExecuteFileStep(c) ==
    /\ jop[c] = "ExecuteFile"
    /\ jpc'[c] # jpc[c] \/ nrun'[c] # nrun[c]

\* C19 as stated: an ExecuteFile call (and ExecuteFiles, which repeats it)
\* leaves the list of loaded programs as it is and runs the one program it
\* compiled from its own source, no program loaded before.
C19_ExecuteFileBypassesLoaded ==
    [][\A c \in Callers :
          ExecuteFileStep(c) =>
              /\ programs' = programs
              /\ nrun'[c] > nrun[c] => nrun[c] = 0]_vars

\* a step of caller c
Steps(c) == jpc'[c] # jpc[c] \/ nrun'[c] # nrun[c]

\* C20: a load appends its program behind the ones loaded before;
\* ExecuteLoaded copies the list as it is, fails with NoProgramLoaded when
\* the list is empty, runs the copy front to back appending each result,
\* returns the error of the first program that fails without running a
\* later one, and otherwise returns one result per program, in load order.
C20_ExecuteLoadedInOrder ==
    [][\A c \in Callers :
          /\ programs' # programs =>
                \E d \in Callers :
                    jpc[d] = "load_lock" /\ programs' = Append(programs, prog[d])
          /\ (jpc[c] = "el_copy" /\ Steps(c)) =>
                IF programs = <<>>
                  THEN jpc'[c] = "idle" /\ jret'[c] = "NoProgramLoaded"
                  ELSE jpc'[c] = "el_run" /\ progs'[c] = programs /\ nrun'[c] = 0
          /\ (jpc[c] = "el_run" /\ Steps(c)) =>
                IF Throws(progs[c][nrun[c] + 1])
                  THEN /\ jpc'[c] = "idle" /\ jret'[c] = "ScriptError"
                       /\ nrun'[c] = 0
                  ELSE /\ nrun'[c] = nrun[c] + 1
                       /\ results'[c] = Append(results[c], Value(progs[c][nrun[c] + 1]))
                       /\ jpc'[c] = "el_ret" <=> nrun'[c] = Len(progs[c])
          /\ (jpc[c] = "el_ret" /\ Steps(c)) =>
                /\ jpc'[c] = "idle" /\ jret'[c] = "ok"
                /\ nrun[c] = Len(progs[c])
                /\ results[c] = [i \in 1..Len(progs[c]) |-> Value(progs[c][i])]
                /\ \A i \in 1..Len(progs[c]) : progs[c][i] = programs[i]]_vars

\* One ExecuteLoaded is about to return the result of the program loaded
\* first; another, begun after a throwing program was loaded behind it, has
\* returned the error.
C20_Witness ==
    \E c, d \in Callers :
        /\ jpc[c] = "el_ret" /\ jop[c] = "ExecuteLoaded"
        /\ results[c] = <<Value("a")>>
        /\ programs = <<"a", "throw">>
        /\ jret[d] = "ScriptError" /\ jpc[d] = "idle"

\* C16: on one engine instance at most one goroutine at a time is between
\* the lock and the unlock of an operation that uses the interpreter, two
\* GetGlobal calls included.  GetGlobal of the Lua engine takes the read
\* lock, which two goroutines hold together.
C16_OneGoroutineOnInterpreter ==
    Cardinality({c \in Callers : LuaAccessing(c)}) <= 1

\* C12: every call of the pool's ExecuteString on a fixed pool, racing with
\* Close calls on the pool and on its engines, returns success, the
\* pool-closed error or the not-initialized error, and an error only when
\* the pool or the engine has been closed.
C12_WrapperResults ==
    \A b \in Borrowers :
        /\ aret[b] \in {"none", "closed"}
        /\ xret[b] \in {"none", "ok", "NotInitialized"}
        /\ aret[b] = "closed" => closed
        /\ (xret[b] # "none" /\ xret[b] # "ok") =>
               \E e \in EngineIds : e < nextId /\ closeCalls[e] > 0

\* C26: Register(t, f) succeeds exactly when t is not bound, binds t to f
\* then and leaves the map as it is otherwise; Unregister(t) returns true
\* exactly when t was bound and leaves t unbound, so a second Unregister
\* returns false and a Register after it succeeds; GetFactory(t) reports
\* found exactly when t is bound, with the constructor bound to it.
C26_FactoryRegistry ==
    [][/\ \A t \in Types : \A f \in Ctors :
             Register(t, f) =>
                 /\ fcall'.ok <=> factories[t] = NoFactory
                 /\ factories' = IF factories[t] = NoFactory
                                   THEN [factories EXCEPT ![t] = f] ELSE factories
       /\ \A t \in Types :
             Unregister(t) =>
                 /\ fcall'.ok <=> factories[t] # NoFactory
                 /\ factories' = [factories EXCEPT ![t] = NoFactory]
       /\ \A t \in Types :
             GetFactory(t) =>
                 /\ fcall'.ok <=> factories[t] # NoFactory
                 /\ fcall'.f = factories[t]
                 /\ factories' = factories]_vars

\* a Register has failed on a type bound to another constructor, which is
\* still bound to it
C26_Witness ==
    /\ fcall.op = "Register"
    /\ ~fcall.ok
    /\ factories[fcall.typ] # NoFactory
    /\ factories[fcall.typ] # fcall.f

\* C27: Manager.Register(name, engine) fails when name is empty, engine is
\* nil or name is registered, and leaves the map as it is then; otherwise it
\* succeeds and binds name to engine, and Get(name) returns the engine bound
\* to name with found = true, and found = false for a name that is not bound.
C27_ManagerRegister ==
    [][/\ \A n \in Names \cup {EmptyName} : \A e \in MgrEngines \cup {Nil} :
             RegisterCall(n, e) =>
                 IF n = EmptyName \/ e = Nil \/ engines[n] # NoEngine
                   THEN ~mcall'.ok /\ engines' = engines
                   ELSE mcall'.ok /\ engines' = [engines EXCEPT ![n] = e]
       /\ \A n \in Names :
             MgrGet(n) =>
                 /\ mcall'.ok <=> engines[n] # NoEngine
                 /\ mcall'.eng = engines[n]]_vars

\* a Register has failed on a name registered for another engine, which Get
\* would still return
C27_Witness ==
    /\ mcall.op = "Register"
    /\ ~mcall.ok
    /\ mcall.name # EmptyName /\ mcall.eng # Nil
    /\ engines[mcall.name] # NoEngine
    /\ engines[mcall.name] # mcall.eng

\* the Close calls on e that calls in progress have yet to make: one for each
\* occurrence of e in the rest of a CloseAll list, one for each Remove that
\* took e out of the map
Pending(e) ==
    Cardinality({x \in Workers \X (1..NumNames) :
                     /\ mpc[x[1]] = "closing"
                     /\ x[2] > mi[x[1]] /\ x[2] <= Len(mlist[x[1]])
                     /\ mlist[x[1]][x[2]] = e})
    + Cardinality({r \in Removers : rpc[r] = "removing" /\ reng[r] = e})

Occurrences(s, e) == Cardinality({i \in 1..Len(s) : s[i] = e})

\* the list holds the engines of the map m, one for each name
IsSnapshotOf(s, m) ==
    /\ Len(s) = Cardinality({n \in Names : m[n] # NoEngine})
    /\ \A e \in MgrEngines : Occurrences(s, e) = Cardinality({n \in Names : m[n] = e})

\* some step of InitAll or CloseAll calls Init or Close on the engine e
Visits(e) ==
    \E w \in Workers :
        /\ mpc[w] \in {"initing", "closing"}
        /\ mi[w] < Len(mlist[w])
        /\ mlist[w][mi[w] + 1] = e
        /\ mi'[w] = mi[w] + 1 \/ mpc'[w] = "idle"

PoolDrainAttemptsAll ==
    [][\A c \in Closers :
          (cpc[c] = "drain" /\ bpc' = bpc /\ pool' # pool) =>
              /\ cpc'[c] = "drain"
              /\ pool' = Tail(pool)
              /\ closeCalls'[Head(pool)] = closeCalls[Head(pool)] + 1
              /\ cret'[c] = IF einit[Head(pool)] THEN cret[c] ELSE "err"]_vars

C24_HandedOutInitialized ==
    \A b \in Borrowers :
        (IsAuto /\ bpc[b] = "holding") => einit[eng[b]]

\* C23: NewEnginePool either fails, and then it returns no pool, Close has
\* been called on every engine the factory returned and none of them is left
\* initialized, or it succeeds, and then the queue holds exactly size engines,
\* all initialized.
C23_ConstructionAtomic ==
    /\ npc = "cleanup" => nret \in {"factory", "init"}
    /\ npc = "done" =>
          IF nret = "pool"
            THEN /\ nsize >= 1
                 /\ NewEnginePool(nsize)
            ELSE /\ nret \in {"size", "factory", "init"}
                 /\ pool = <<>>
                 /\ \A e \in EngineIds : ~einit[e]
                 /\ \A e \in 1..(nextId - 1) : closeCalls[e] >= 1

\* a construction that failed at an Init after it had created an engine
C23_Witness ==
    /\ npc = "done"
    /\ nret = "init"
    /\ Len(created) >= 1
    /\ neng \notin {created[i] : i \in 1..Len(created)}

\* the steps with which a wrapper call of b returns after its Release
WrapReturn(b) ==
    /\ bpc[b] \in {"returned", "rel_send", "rel_close", "rel_recover",
                   "full_dec", "recover_dec"}
    /\ bpc'[b] = "idle"

\* the steps with which a wrapper call of b returns because Acquire failed
AcquireFails(b) ==
    /\ bpc'[b] = "idle"
    /\ \/ bpc[b] \in {"try", "recv", "rollback"}
       \/ bpc[b] = "idle" /\ aret'[b] # aret[b] /\ aret'[b] # "none"

\* C25 as stated: a wrapper call that runs alone on an open pool leaves as
\* many idle engines behind as it found, also when the engine call failed.
C25_IdleCountKept ==
    [][\A b \in Borrowers :
          (WrapReturn(b) /\ ~closed') => Len(pool') = xidle[b]]_vars

\* C25: a wrapper call that runs alone on an open pool takes one engine and
\* gives it back whatever the engine call returned; the pool has as many
\* idle engines afterwards as before, or one where it had none and the
\* auto-growing pool created the engine of the call.  A wrapper whose
\* Acquire failed releases nothing.
C25_AcquireUseRelease ==
    /\ [](\A b \in Borrowers :
             /\ bpc[b] = "idle" => eng[b] = Nil
             /\ bpc[b] \in {"holding", "x_run", "returned"} => eng[b] # Nil)
    /\ [][\A b \in Borrowers :
             /\ (WrapReturn(b) /\ ~closed') =>
                   /\ eng'[b] = Nil
                   /\ \/ Len(pool') = xidle[b]
                      \/ IsAuto /\ xidle[b] = 0 /\ Len(pool') = 1
                   /\ pool'[Len(pool')] = eng[b]
             /\ AcquireFails(b) =>
                   /\ eng[b] = Nil /\ eng'[b] = Nil
                   /\ pool' = pool
                   /\ closeCalls' = closeCalls]_vars

\* a wrapper call has returned the engine's error on an open pool and the
\* engine is back in the queue
C25_Witness ==
    \E b \in Borrowers :
        /\ bpc[b] = "idle"
        /\ aret[b] = "none"
        /\ xret[b] = "NotInitialized"
        /\ ~closed
        /\ Len(pool) = xidle[b]
        /\ Len(pool) >= 1

\* C21: a panic raised while ExecuteString, CallFunction or RunProgram runs
\* a script does not reach the caller; the call returns a non-nil error, and
\* execMu is free once the call is over.
C21_PanicBecomesError ==
    (/\ scall.op \in RunOps
     /\ scall.arg = "panic"
     /\ scall.at \in {"returned", "panicked"}) =>
        /\ scall.at = "returned"
        /\ scall.err # NoError
        /\ ~sexec

\* C22: after an operation that returned an error the last-error slot holds
\* that error, and after one that succeeded it holds nil.
C22_SlotFollowsResult ==
    (scall.at = "returned" /\ scall.op \notin {"none", "GetLastError"}) =>
        slast = scall.err

SourcesOf(call) == IF call.op = "LoadString" THEN <<call.arg>> ELSE call.arg

\* the step is a Load call of the JavaScript engine
IsLoad == slang = "js" /\ scall'.op \in {"LoadString", "LoadStrings"}

\* C32 as stated: a Load on an engine that is not initialized fails with
\* NotInitialized; a failing Load changes neither the flag nor the list of
\* programs; a successful one appends its sources, in order, at the end.
C32_FailingLoadAppendsNothing ==
    [][IsLoad =>
          /\ ~sinit => scall'.err = NotInitializedErr
          /\ sinit' = sinit
          /\ sprogs' = IF scall'.err = NoError
                         THEN sprogs \o SourcesOf(scall')
                         ELSE sprogs]_vars

\* C32: a Load given at least one source fails with NotInitialized on an
\* engine that is not initialized and then appends nothing; no Load changes
\* the flag; a successful Load appends its sources, in order, at the end of
\* the list; a Load that fails on a source that does not compile has
\* appended the sources before that one, in order, and nothing after, so
\* LoadString, given one source, appends nothing when it fails.
C32_LoadFrame ==
    [][IsLoad =>
          LET S == SourcesOf(scall') IN
          /\ (~sinit /\ S # <<>>) =>
                scall'.err = NotInitializedErr /\ sprogs' = sprogs
          /\ sinit' = sinit
          /\ scall'.err = NoError => sprogs' = sprogs \o S
          /\ (sinit /\ scall'.err # NoError) =>
                \E k \in 1..Len(S) :
                    /\ S[k] = "syntax"
                    /\ \A i \in 1..(k - 1) : S[i] # "syntax"
                    /\ sprogs' = sprogs \o SubSeq(S, 1, k - 1)]_vars

\* a LoadStrings call has failed on its second source and the first is in
\* the list
C32_Witness ==
    /\ slang = "js"
    /\ scall.at = "returned"
    /\ scall.op = "LoadStrings"
    /\ scall.err = "compile"
    /\ Len(scall.arg) = 2
    /\ sprogs # <<>>
    /\ sprogs[Len(sprogs)] = scall.arg[1]

\* C33: GetDefault reads the default name only while no SetDefault is
\* writing it, and what it looks up is the default name of that moment.
C33_DefaultUnderLock ==
    [][\A g \in Workers :
          (dpc[g] = "idle" /\ dpc'[g] = "lookup") =>
              /\ mwriter = 0
              /\ dname'[g] = mdefault]_vars

\* a goroutine is inside Init or Close, past the check of the flag
InLifecycle == \E c \in Callers : jpc[c] \in {"init_exec", "close_exec"}

\* C34: while no Init and no Close is in progress the JavaScript engine is
\* initialized exactly when it has a runtime; a call fails with the
\* runtime-not-initialized error only at a moment when the engine has been
\* closed since the call checked the flag: the flag is down and the last
\* lifecycle call that succeeded is a Close.
C34_FlagMatchesRuntime ==
    /\ [](~InLifecycle => (initialized <=> runtime))
    /\ [][\A c \in Callers :
             (jret'[c] = "RuntimeNotInitialized" /\ jret[c] # "RuntimeNotInitialized") =>
                 /\ ~initialized /\ ~runtime
                 /\ lastOk = "Close"
                 /\ jpc[c] # "idle"]_vars

\* the engine has been initialized, closed and initialized again, and a call
\* on a global is past its check with no Init or Close in progress
C34_Witness ==
    /\ ~InLifecycle
    /\ initialized /\ runtime
    /\ reinit
    /\ \E c \in Callers : jpc[c] = "global_access"

\* C35: when an InitAll call returns, with or without error, the channel
\* of the fixed pool holds all size engines again, the call has closed
\* none of them, and every engine in the channel is initialized unless a
\* Close had been called on it before.
C35_InitAllKeepsEngines ==
    [][\A i \in Initers :
          (ipc[i] # "idle" /\ ipc'[i] = "idle") =>
              /\ Len(pool') = size
              /\ closeCalls' = closeCalls
              /\ \A k \in 1..Len(pool') :
                    einit'[pool'[k]] \/ closeCalls[pool'[k]] > 0]_vars

\* C36: every InitAll call returns, whatever other InitAll calls and
\* borrowers that release what they hold do meanwhile.
C36_InitAllTerminates ==
    \A i \in Initers : (ipc[i] # "idle") ~> (ipc[i] = "idle")

\* C37: in an open auto-growing pool an Acquire that waits in the receive
\* while the count is below the maximum gets out of the receive in the end,
\* with an engine or with an error.
C37_BlockedAcquireUsesCapacity ==
    \A b \in Borrowers :
        (IsAuto /\ ~closed /\ bpc[b] = "recv" /\ total < max) ~> (bpc[b] # "recv" \/ closed)

\* C38: a script run on the JavaScript engine is aborted by an interrupt
\* only when the interrupt was raised by the watcher of the call that runs
\* it and the context of that call is cancelled; while a call whose context
\* is not cancelled holds the interpreter, no interrupt is pending.
C38_InterruptHitsItsOwnCall ==
    /\ [](\A c \in Callers :
             (jpc[c] = "running" /\ ~ctxDone[c]) => interrupt = 0)
    /\ [][\A c \in Callers :
             (jpc[c] = "running" /\ jret'[c] = "Interrupted") =>
                 (interrupt = c /\ ctxDone[c])]_vars

\* C39: no goroutine of a call on the Lua engine that has returned is left:
\* none waits for the engine lock and none holds it.
C39_NoGoroutineOutlivesCall ==
    /\ \A c \in Callers : lwait[c] = 0
    /\ ~lorphan

\* C40: a GetGlobal made through the pool reports the name as not found
\* only when no engine of the pool has it, that is when no RegisterGlobal
\* made through the pool has succeeded before.
C40_RegisteredIsVisible ==
    [][\A b \in Borrowers :
          (bpc[b] = "holding" /\ xret'[b] = "NotFound") =>
              \A e \in EngineIds : ~eglobal[e]]_vars

====
